---- MODULE Spec2Model ----
(***************************************************************************)
(* Model of the reconciliation engine of polymarket_insider:               *)
(*   collectors/trader_collector.py  (TraderCollector, collect_traders_task)*)
(*   collectors/market_collector.py  (MarketCollector._store_market)       *)
(*   core/database.py                (SessionLocal, autoflush=False)       *)
(*                                                                         *)
(* The entity store is modelled as the committed tables (db), the view of  *)
(* the open transaction including attribute changes made on loaded objects *)
(* (work), and the objects added to the session but not yet flushed        *)
(* (pending).  The session is created with autoflush=False, so a query     *)
(* reads `work` only and never sees `pending`.                             *)
(*                                                                         *)
(* Amounts are integers (the code uses floats); a nullable value is a      *)
(* tuple: <<>> is None/NULL and <<v>> is the value v.  A payload is a      *)
(* function whose DOMAIN is the set of keys the JSON object carries.       *)
(***************************************************************************)
EXTENDS Integers, Sequences, FiniteSets, TLC

VARIABLES
    db,        \* committed tables: traders, positions, activities, markets
    work,      \* the open transaction's view of the tables (flushed rows, loaded objects)
    pending,   \* objects added to the session and not flushed: positions, activities, markets
    api,       \* what the external API currently answers (positions, trades, activity, markets)
    task,      \* collect_traders_task: addresses, loop index, collected, per-address outcomes
    pc,        \* position of the running collect_trader call
    cur,       \* locals of the running collect_trader call
    calls,     \* number of collect_trader calls started so far (also the clock of utcnow)
    replay     \* what the previous collect_trader call left, while the API has not changed since

vars == <<db, work, pending, api, task, pc, cur, calls, replay>>

(***************************************************************************)
(* Bounds of the model                                                     *)
(***************************************************************************)
MaxCalls == 2
MaxBatch == 2
MaxPositions == 2
MaxActivities == 2
MaxTrades == 5
MaxListing == 2

\* limit = 500 in _collect_trades_and_stats, scaled down to pages of 2 trades
limit == 2

(***************************************************************************)
(* Python values                                                           *)
(***************************************************************************)
None == <<>>
Some(v) == <<v>>
Val(o) == o[1]

\* dict.get(key): None when the key is absent
Get(data, key) == IF key \in DOMAIN data THEN Some(data[key]) ELSE None

\* dict.get(key, default)
GetOr(data, key, default) == IF key \in DOMAIN data THEN data[key] ELSE default

\* truthiness of an optional string: None and "" are false
Truthy(o) == o # None /\ Val(o) # ""

\* truthiness of an optional number: None and 0 are false
TruthyNum(o) == o # None /\ Val(o) # 0

\* a or b
Or(a, b) == IF Truthy(a) THEN a ELSE b

Abs(x) == IF x < 0 THEN -x ELSE x

RECURSIVE Gcd(_, _)
Gcd(a, b) == IF b = 0 THEN a ELSE Gcd(b, a % b)

\* the exact quotient a / b (b > 0, a >= 0) as a reduced fraction
Quot(a, b) == LET g == Gcd(a, b) IN <<a \div g, b \div g>>

RECURSIVE SumSeq(_)
SumSeq(s) == IF s = <<>> THEN 0 ELSE Head(s) + SumSeq(Tail(s))

RECURSIVE SelectIdx(_, _, _)
\* indices i >= from of s with Test(s[i]), ascending
SelectIdx(s, ok, from) ==
    IF from > Len(s) THEN <<>>
    ELSE IF ok[from] THEN <<from>> \o SelectIdx(s, ok, from + 1)
    ELSE SelectIdx(s, ok, from + 1)

Range(s) == {s[i] : i \in DOMAIN s}

\* sequences over S of length at most n
SeqUpTo(S, n) == UNION {[1..k -> S] : k \in 0..n}

(***************************************************************************)
(* The external API (api/client.py).  A response is [status, body]; a      *)
(* status other than 200 makes _make_request raise httpx.HTTPStatusError.  *)
(***************************************************************************)
Addresses == {"0xa1", "0x404"}

\* the characters of an address, as they occur in a request URL
AddressChars(address) ==
    IF address = "0x404" THEN <<"0", "x", "4", "0", "4">> ELSE <<"0", "x", "a", "1">>

StatusChars(status) ==
    IF status = 404 THEN <<"4", "0", "4">>
    ELSE IF status = 500 THEN <<"5", "0", "0">>
    ELSE <<"2", "0", "0">>

\* str(e) of the HTTPStatusError of a request for `address`: it carries the status
\* line and the request URL, whose query string holds user=<address>
StrOfError(status, address) ==
    StatusChars(status) \o <<" ", "u", "r", "l", " ", "?", "u", "=">> \o AddressChars(address)

\* a classifier that absorbs no failure
Contains404Never(text) == FALSE

\* "404" in text
Contains404(text) ==
    \E i \in 1..(Len(text) - 2) : SubSeq(text, i, i + 2) = <<"4", "0", "4">>

Ok(body) == [status |-> 200, body |-> body]
Fail(status) == [status |-> status, body |-> <<>>]
Raises(resp) == resp.status # 200

\* position payloads of the data API (keys as read by _create_position)
PositionPayloads == {
    [condition_id |-> "M1", outcome |-> "YES", size |-> 10, avgPrice |-> 6,
     initialValue |-> 6, currentValue |-> 8, realizedPnl |-> 0, cashPnl |-> 2],
    [condition_id |-> "M1", outcome |-> "YES", size |-> 4, avgPrice |-> 7,
     initialValue |-> 3, currentValue |-> 2, realizedPnl |-> 0, cashPnl |-> -1],
    [condition_id |-> "M2", outcome |-> "NO", avgPrice |-> 5,
     initialValue |-> 1, realizedPnl |-> 1, cashPnl |-> -1],
    [outcome |-> "YES", size |-> 2, avgPrice |-> 1,
     initialValue |-> 2, currentValue |-> 2, realizedPnl |-> 0, cashPnl |-> 1] }

\* activity payloads (keys as read by _create_activity); both spellings of the hash key
ActivityPayloads == {
    [transactionHash |-> "h1", type |-> "TRADE", conditionId |-> "M1", cashAmount |-> 5,
     timestamp |-> 10],
    [txHash |-> "h1", type |-> "REDEEM", condition_id |-> "M2", cashAmount |-> 9],
    [type |-> "REWARD", cashAmount |-> 1, timestamp |-> 7] }

\* the i-th trade of a trader's history (keys as read by _collect_trades_and_stats)
TradeAt(i) ==
    CASE i = 1 -> [cashAmount |-> 3, conditionId |-> "M1", timestamp |-> 10]
      [] i = 2 -> [cashAmount |-> -2, conditionId |-> "M2", timestamp |-> 5]
      [] i = 3 -> [conditionId |-> "M1"]
      [] i = 4 -> [cashAmount |-> 1, timestamp |-> 20]
      [] OTHER -> [cashAmount |-> i, conditionId |-> "M1", timestamp |-> i]

TradeHistory(n) == [i \in 1..n |-> TradeAt(i)]

Min(a, b) == IF a < b THEN a ELSE b

\* market-detail payloads (keys as read by _create_market)
MarketPayloads == {
    [id |-> "X1", condition_id |-> "M1", question |-> "q1", volume |-> 3],
    [id |-> "X2", condition_id |-> "C2", question |-> "q2"] }

\* PolymarketAPIClient.get_user_trades: the slice [offset, offset + lim) of the
\* history, unless the API fails the request for that page
get_user_trades(address, lim, offset) ==
    IF api.trades.fail # None /\ Val(api.trades.fail).page = offset \div lim
    THEN Fail(Val(api.trades.fail).status)
    ELSE Ok(SubSeq(TradeHistory(api.trades.n), offset + 1, Min(offset + lim, api.trades.n)))

\* PolymarketAPIClient.get_market
get_market(market_id) == api.markets[market_id]

\* data-API calls of the collector: the trader's positions and activity feed
get_user_positions_detailed(address) == api.positions
get_user_activity_detailed(address) == api.activity

(***************************************************************************)
(* The entity store and the session (core/database.py, models/*.py).       *)
(* A table is the sequence of its rows in primary-key order; a row's id is *)
(* its index (autoincrement).                                              *)
(***************************************************************************)
EmptyTables == [traders |-> <<>>, positions |-> <<>>, activities |-> <<>>, markets |-> <<>>]

\* Session(autoflush=False): nothing added; needs_rollback after a failed flush
NewSession == [positions |-> <<>>, activities |-> <<>>, markets |-> <<>>,
               needs_rollback |-> FALSE]

\* index of the first row of `rows` that satisfies `ok` (Query.first()), 0 if none
First(rows, ok) ==
    IF \E i \in DOMAIN rows : ok[i]
    THEN CHOOSE i \in DOMAIN rows : ok[i] /\ \A j \in DOMAIN rows : ok[j] => i <= j
    ELSE 0

\* db.query(Trader).filter(Trader.address == address).first()
QueryTrader(tables, address) ==
    First(tables.traders, [i \in DOMAIN tables.traders |-> tables.traders[i].address = address])

\* Trader(address=..., trader_url=..., last_synced_at=...) after add() and flush():
\* the column defaults of models/trader.py are applied by the INSERT
NewTrader(address, now) ==
    [address |-> address, trader_url |-> Some(<<"profile", address>>), total_volume |-> 0,
     total_trades |-> 0, markets_traded |-> 0, win_rate |-> None,
     avg_position_size |-> None, first_trade_date |-> None, last_trade_date |-> None,
     last_synced_at |-> now]

\* db.query(Position).filter(trader_id ==, market_id ==, outcome ==).first();
\* a comparison with None is rendered IS NULL, so an absent identifier matches NULL
QueryPosition(positions, trader_id, market_id, outcome) ==
    First(positions, [i \in DOMAIN positions |->
        /\ positions[i].trader_id = trader_id
        /\ positions[i].market_id = market_id
        /\ positions[i].outcome = outcome])

\* TraderCollector._create_position
_create_position(trader_id, data) ==
    LET size_value == GetOr(data, "size", 0)
        initial_value == GetOr(data, "initialValue", 0)
    IN [trader_id |-> trader_id,
        market_id |-> Get(data, "condition_id"),
        outcome |-> Get(data, "outcome"),
        size |-> size_value,
        shares |-> size_value,
        initial_value |-> initial_value,
        invested_amount |-> initial_value,
        current_value |-> GetOr(data, "currentValue", 0),
        avg_entry_price |-> GetOr(data, "avgPrice", 0),
        realized_pnl |-> GetOr(data, "realizedPnl", 0),
        unrealized_pnl |-> GetOr(data, "cashPnl", 0)]

\* an update that also overwrites initial_value and invested_amount from the payload
_update_position_all(position, data) ==
    LET size_value == GetOr(data, "size", position.size)
        initial_value == GetOr(data, "initialValue", position.initial_value)
    IN [position EXCEPT
        !.size = size_value,
        !.shares = size_value,
        !.initial_value = initial_value,
        !.invested_amount = initial_value,
        !.current_value = GetOr(data, "currentValue", position.current_value),
        !.avg_entry_price = GetOr(data, "avgPrice", position.avg_entry_price),
        !.realized_pnl = GetOr(data, "realizedPnl", position.realized_pnl),
        !.unrealized_pnl = GetOr(data, "cashPnl", position.unrealized_pnl)]

\* an update that writes size and leaves shares as it was
_update_position_size_only(position, data) ==
    [position EXCEPT
        !.size = GetOr(data, "size", position.size),
        !.current_value = GetOr(data, "currentValue", position.current_value),
        !.avg_entry_price = GetOr(data, "avgPrice", position.avg_entry_price),
        !.realized_pnl = GetOr(data, "realizedPnl", position.realized_pnl),
        !.unrealized_pnl = GetOr(data, "cashPnl", position.unrealized_pnl)]

\* TraderCollector._update_position
_update_position(position, data) ==
    LET size_value == GetOr(data, "size", position.size)
    IN [position EXCEPT
        !.size = size_value,
        !.shares = size_value,
        !.current_value = GetOr(data, "currentValue", position.current_value),
        !.avg_entry_price = GetOr(data, "avgPrice", position.avg_entry_price),
        !.realized_pnl = GetOr(data, "realizedPnl", position.realized_pnl),
        !.unrealized_pnl = GetOr(data, "cashPnl", position.unrealized_pnl)]

\* a position loop that collects the identifier of a payload only when it creates
\* the row
RECURSIVE StorePositionsNewIds(_, _, _, _)
StorePositionsNewIds(positions_data, k, trader_id, st) ==
    IF k > Len(positions_data) THEN st
    ELSE
        LET pos_data == positions_data[k]
            market_id == Get(pos_data, "condition_id")
            market_ids == IF Truthy(market_id) THEN st.market_ids \cup {Val(market_id)}
                          ELSE st.market_ids
            position == QueryPosition(st.rows, trader_id, market_id, Get(pos_data, "outcome"))
        IN IF position # 0
           THEN StorePositionsNewIds(positions_data, k + 1, trader_id,
                    [st EXCEPT !.rows[position] = _update_position(st.rows[position], pos_data)])
           ELSE StorePositionsNewIds(positions_data, k + 1, trader_id,
                    [st EXCEPT !.market_ids = market_ids,
                               !.added = Append(st.added, _create_position(trader_id, pos_data))])

\* a position loop that ends by deleting the trader's rows the payload does not list
RECURSIVE StorePositionsSnapshot(_, _, _, _)
StorePositionsSnapshot(positions_data, k, trader_id, st) ==
    IF k > Len(positions_data)
    THEN [st EXCEPT !.rows = SelectSeq(st.rows, LAMBDA row :
              \/ row.trader_id # trader_id
              \/ \E j \in DOMAIN positions_data :
                    /\ row.market_id = Get(positions_data[j], "condition_id")
                    /\ row.outcome = Get(positions_data[j], "outcome"))]
    ELSE
        LET pos_data == positions_data[k]
            market_id == Get(pos_data, "condition_id")
            market_ids == IF Truthy(market_id) THEN st.market_ids \cup {Val(market_id)}
                          ELSE st.market_ids
            position == QueryPosition(st.rows, trader_id, market_id, Get(pos_data, "outcome"))
        IN IF position # 0
           THEN StorePositionsSnapshot(positions_data, k + 1, trader_id,
                    [st EXCEPT !.market_ids = market_ids,
                               !.rows[position] = _update_position(st.rows[position], pos_data)])
           ELSE StorePositionsSnapshot(positions_data, k + 1, trader_id,
                    [st EXCEPT !.market_ids = market_ids,
                               !.added = Append(st.added, _create_position(trader_id, pos_data))])

\* the `for pos_data in positions_data` loop of _collect_positions, from entry k on:
\* st = [rows: the positions the queries see, added: the positions added to the
\* session, market_ids: the identifiers seen]
RECURSIVE StorePositions(_, _, _, _)
StorePositions(positions_data, k, trader_id, st) ==
    IF k > Len(positions_data) THEN st
    ELSE
        LET pos_data == positions_data[k]
            market_id == Get(pos_data, "condition_id")
            market_ids == IF Truthy(market_id) THEN st.market_ids \cup {Val(market_id)}
                          ELSE st.market_ids
            position == QueryPosition(st.rows, trader_id, market_id, Get(pos_data, "outcome"))
        IN IF position # 0
           THEN StorePositions(positions_data, k + 1, trader_id,
                    [st EXCEPT !.market_ids = market_ids,
                               !.rows[position] = _update_position(st.rows[position], pos_data)])
           ELSE StorePositions(positions_data, k + 1, trader_id,
                    [st EXCEPT !.market_ids = market_ids,
                               !.added = Append(st.added, _create_position(trader_id, pos_data))])

\* db.query(Position).filter(Position.trader_id == trader.id).all()
PositionsOf(positions, trader_id) ==
    SelectIdx(positions, [i \in DOMAIN positions |-> positions[i].trader_id = trader_id], 1)

\* TraderCollector._calculate_win_rate: the new value of trader.win_rate
_calculate_win_rate(positions, trader_id) ==
    LET idx == PositionsOf(positions, trader_id)
        winning_positions == Cardinality({i \in Range(idx) :
            positions[i].realized_pnl + positions[i].unrealized_pnl > 0})
    IN IF idx = <<>> THEN None ELSE Some(Quot(winning_positions * 100, Len(idx)))

\* an average taken over the size column instead of initial_value
AvgPositionSizeOfSize(positions, trader_id) ==
    LET idx == PositionsOf(positions, trader_id)
        total_size == SumSeq([k \in DOMAIN idx |-> positions[idx[k]].size])
    IN IF idx = <<>> THEN None ELSE Some(Quot(total_size, Len(idx)))

\* TraderCollector._calculate_avg_position_size: the new value of trader.avg_position_size
_calculate_avg_position_size(positions, trader_id) ==
    LET idx == PositionsOf(positions, trader_id)
        total_initial_value == SumSeq([k \in DOMAIN idx |-> positions[idx[k]].initial_value])
    IN IF idx = <<>> THEN None ELSE Some(Quot(total_initial_value, Len(idx)))

\* datetime.fromtimestamp(ts).isoformat(): the date string of a unix timestamp
IsoFormat(ts) == <<"iso", ts>>

MinOf(S) == CHOOSE x \in S : \A y \in S : x <= y
MaxOf(S) == CHOOSE x \in S : \A y \in S : x >= y

\* statistics that are added to the stored totals instead of replacing them
TradeStatsAccumulate(trader, trader_id, all_trades, positions) ==
    LET total_volume == SumSeq([k \in DOMAIN all_trades |->
                            Abs(GetOr(all_trades[k], "cashAmount", 0))])
        markets_traded == {Val(Get(all_trades[k], "conditionId")) :
                            k \in {j \in DOMAIN all_trades : Truthy(Get(all_trades[j], "conditionId"))}}
    IN [trader EXCEPT
        !.total_volume = @ + total_volume,
        !.total_trades = @ + Len(all_trades),
        !.markets_traded = @ + Cardinality(markets_traded),
        !.win_rate = _calculate_win_rate(positions, trader_id),
        !.avg_position_size = _calculate_avg_position_size(positions, trader_id)]

\* lines 201-233 of _collect_trades_and_stats: the trader row after the statistics
\* of a non-empty trade list are assigned; `positions` is what the queries see
TradeStats(trader, trader_id, all_trades, positions) ==
    LET total_volume == SumSeq([k \in DOMAIN all_trades |->
                            Abs(GetOr(all_trades[k], "cashAmount", 0))])
        markets_traded == {Val(Get(all_trades[k], "conditionId")) :
                            k \in {j \in DOMAIN all_trades : Truthy(Get(all_trades[j], "conditionId"))}}
        trade_dates == {Val(Get(all_trades[k], "timestamp")) :
                            k \in {j \in DOMAIN all_trades : TruthyNum(Get(all_trades[j], "timestamp"))}}
    IN [trader EXCEPT
        !.total_volume = total_volume,
        !.total_trades = Len(all_trades),
        !.markets_traded = Cardinality(markets_traded),
        !.first_trade_date = IF trade_dates # {} THEN Some(IsoFormat(MinOf(trade_dates))) ELSE @,
        !.last_trade_date = IF trade_dates # {} THEN Some(IsoFormat(MaxOf(trade_dates))) ELSE @,
        !.win_rate = _calculate_win_rate(positions, trader_id),
        !.avg_position_size = _calculate_avg_position_size(positions, trader_id)]

\* TraderCollector._create_activity (the amount columns shares_amount, price,
\* fee_amount and realized_pnl are built like cash_amount; the asset columns like side)
_create_activity(trader_id, data) ==
    LET timestamp == Get(data, "timestamp")
    IN [trader_id |-> trader_id,
        market_id |-> Or(Get(data, "conditionId"), Get(data, "condition_id")),
        transaction_hash |-> Or(Get(data, "transactionHash"), Get(data, "txHash")),
        activity_type |-> GetOr(data, "type", "TRADE"),
        outcome |-> Get(data, "outcome"),
        side |-> Get(data, "side"),
        cash_amount |-> IF TruthyNum(Get(data, "cashAmount")) THEN Get(data, "cashAmount") ELSE None,
        timestamp |-> timestamp,
        activity_date |-> IF TruthyNum(timestamp) THEN Some(IsoFormat(Val(timestamp))) ELSE None,
        activity_metadata |-> Some(data)]

\* a lookup that finds no stored activity
QueryActivityMiss(activities, trader_id, tx_hash) == 0

\* db.query(Activity).filter(trader_id ==, transaction_hash ==).first()
QueryActivity(activities, trader_id, tx_hash) ==
    First(activities, [i \in DOMAIN activities |->
        /\ activities[i].trader_id = trader_id
        /\ activities[i].transaction_hash = tx_hash])

\* an activity loop that looks every payload up, also one without a hash (which
\* then matches a stored row whose transaction_hash is NULL)
RECURSIVE StoreActivitiesDedupAll(_, _, _, _, _)
StoreActivitiesDedupAll(all_activities, k, trader_id, rows, added) ==
    IF k > Len(all_activities) THEN added
    ELSE
        LET activity_data == all_activities[k]
            tx_hash == Or(Get(activity_data, "transactionHash"), Get(activity_data, "txHash"))
        IN IF QueryActivity(rows, trader_id, tx_hash) # 0
           THEN StoreActivitiesDedupAll(all_activities, k + 1, trader_id, rows, added)
           ELSE StoreActivitiesDedupAll(all_activities, k + 1, trader_id, rows,
                                Append(added, _create_activity(trader_id, activity_data)))

\* the `for activity_data in all_activities` loop of _collect_activities, from entry
\* k on: the activities added to the session
RECURSIVE StoreActivities(_, _, _, _, _)
StoreActivities(all_activities, k, trader_id, rows, added) ==
    IF k > Len(all_activities) THEN added
    ELSE
        LET activity_data == all_activities[k]
            tx_hash == Or(Get(activity_data, "transactionHash"), Get(activity_data, "txHash"))
        IN IF Truthy(tx_hash) /\ QueryActivity(rows, trader_id, tx_hash) # 0
           THEN StoreActivities(all_activities, k + 1, trader_id, rows, added)
           ELSE StoreActivities(all_activities, k + 1, trader_id, rows,
                                Append(added, _create_activity(trader_id, activity_data)))

\* a flush under a foreign key from positions.market_id to the stored markets: a
\* position is refused while no Market row carries its identifier
FlushOkMarketForeignKey(tables, session) ==
    /\ \A i \in DOMAIN session.positions :
        /\ session.positions[i].outcome # None
        /\ \E j \in DOMAIN tables.markets :
              tables.markets[j].condition_id = session.positions[i].market_id
    /\ \A i \in DOMAIN session.markets :
        /\ session.markets[i].market_id # None
        /\ \A j \in DOMAIN tables.markets : tables.markets[j].market_id # session.markets[i].market_id
        /\ \A j \in DOMAIN session.markets :
              session.markets[j].market_id = session.markets[i].market_id => j = i

\* the constraints the INSERTs of a flush must meet: positions.outcome is NOT NULL
\* (models/position.py), markets.market_id is NOT NULL and UNIQUE (models/market.py)
FlushOk(tables, session) ==
    /\ \A i \in DOMAIN session.positions : session.positions[i].outcome # None
    /\ \A i \in DOMAIN session.markets :
        /\ session.markets[i].market_id # None
        /\ \A j \in DOMAIN tables.markets : tables.markets[j].market_id # session.markets[i].market_id
        /\ \A j \in DOMAIN session.markets :
              session.markets[j].market_id = session.markets[i].market_id => j = i

\* the tables after the flush of the session's new objects
Flush(tables, session) ==
    [tables EXCEPT !.positions = @ \o session.positions,
                   !.activities = @ \o session.activities,
                   !.markets = @ \o session.markets]

\* a lookup by market id that finds no stored market
QueryMarketMiss(markets, market_id) == 0

\* db.query(Market).filter(Market.market_id == market_id).first()
QueryMarket(markets, market_id) ==
    First(markets, [i \in DOMAIN markets |-> markets[i].market_id = market_id])

\* a lookup by condition identifier that finds no stored market
QueryMarketByConditionMiss(markets, market_id) == 0

\* db.query(Market).filter(Market.condition_id == market_id).first()
QueryMarketByCondition(markets, market_id) ==
    First(markets, [i \in DOMAIN markets |-> markets[i].condition_id = market_id])

\* Json(v): json.dumps(v), the serialized copy of a payload value
Json(v) == <<"json", v>>

\* float(data.get(key, default)) raises when the payload carries a JSON null under
\* the key (a liquidity is given as None for null, Some(n) for the number n)
FloatRaises(data, key) == key \in DOMAIN data /\ data[key] = None

\* float(data.get(key, default)) when it does not raise
Float(data, key, default) == IF key \in DOMAIN data THEN Val(data[key]) ELSE default

\* MarketCollector._create_market (description, category, the status flags and the
\* dates are built like question)
_create_market(data, now) ==
    [market_id |-> Get(data, "id"),
     condition_id |-> Get(data, "condition_id"),
     question |-> GetOr(data, "question", ""),
     volume |-> GetOr(data, "volume", 0),
     liquidity |-> Float(data, "liquidity", 0),
     outcome_prices |-> Json(GetOr(data, "outcome_prices", <<>>)),
     outcomes |-> Json(GetOr(data, "outcomes", <<>>)),
     winning_outcome |-> Get(data, "winning_outcome"),
     last_synced_at |-> now]

\* MarketCollector._update_market up to line 138, where line 139 raises
_update_market_interrupted(market, data) ==
    [market EXCEPT
        !.question = GetOr(data, "question", market.question),
        !.volume = GetOr(data, "volume", market.volume)]

\* MarketCollector._update_market
_update_market(market, data, now) ==
    [market EXCEPT
        !.question = GetOr(data, "question", market.question),
        !.volume = GetOr(data, "volume", market.volume),
        !.liquidity = Float(data, "liquidity", market.liquidity),
        !.outcome_prices = Json(GetOr(data, "outcome_prices", <<>>)),
        !.outcomes = Json(GetOr(data, "outcomes", <<>>)),
        !.winning_outcome = IF "winning_outcome" \in DOMAIN data
                            THEN Get(data, "winning_outcome") ELSE market.winning_outcome,
        !.last_synced_at = now]

\* MarketCollector._store_market on st = [rows, added, ...]; when the conversion of
\* the payload raises, nothing is added and a loaded market keeps the assignments
\* made before the failing line
_store_market(st, market_data, now) ==
    LET market == QueryMarket(st.rows, Get(market_data, "id"))
    IN IF market # 0
       THEN [st EXCEPT !.rows[market] =
                IF FloatRaises(market_data, "liquidity")
                THEN _update_market_interrupted(st.rows[market], market_data)
                ELSE _update_market(st.rows[market], market_data, now)]
       ELSE IF FloatRaises(market_data, "liquidity") THEN st
       ELSE [st EXCEPT !.added = Append(st.added, _create_market(market_data, now))]

\* the `for market_data in markets_data` loop of collect_markets, from entry k on
RECURSIVE StoreMarkets(_, _, _, _)
StoreMarkets(markets_data, k, st, now) ==
    IF k > Len(markets_data) THEN st
    ELSE StoreMarkets(markets_data, k + 1,
            [_store_market(st, markets_data[k], now) EXCEPT
                !.collected = IF FloatRaises(markets_data[k], "liquidity") THEN @ ELSE @ + 1],
            now)

\* a backfill loop that gives up at the first market-detail request that fails
RECURSIVE BackfillLoopAbort(_, _, _, _, _)
BackfillLoopAbort(positions, idx, k, st, now) ==
    IF k > Len(idx) THEN st
    ELSE
        LET market_id == positions[idx[k]].market_id
        IN IF ~Truthy(market_id) \/ Val(market_id) \in st.unique_market_ids
           THEN BackfillLoopAbort(positions, idx, k + 1, st, now)
           ELSE
             LET seen == [st EXCEPT !.unique_market_ids = @ \cup {Val(market_id)}]
             IN IF QueryMarketByCondition(st.rows, market_id) # 0
                THEN BackfillLoopAbort(positions, idx, k + 1, seen, now)
                ELSE
                  LET resp == get_market(Val(market_id))
                      asked == [seen EXCEPT !.fetched = Append(@, Val(market_id))]
                  IN IF Raises(resp)
                     THEN asked
                     ELSE BackfillLoopAbort(positions, idx, k + 1,
                            [_store_market(asked, resp.body, now) EXCEPT
                                !.collected_count =
                                    IF FloatRaises(resp.body, "liquidity") THEN @ ELSE @ + 1],
                            now)

\* what _collect_trader_markets_from_positions hands back: the function has no
\* return value, collected_count is only logged
BackfillReturn(collected_count) == None

\* the `for position in positions` loop of _collect_trader_markets_from_positions,
\* from the k-th of the trader's positions on: st = [rows: the markets the queries
\* see, added: the markets added to the session, unique_market_ids, collected_count,
\* fetched: the identifiers passed to get_market, in order]
RECURSIVE BackfillLoop(_, _, _, _, _)
BackfillLoop(positions, idx, k, st, now) ==
    IF k > Len(idx) THEN st
    ELSE
        LET market_id == positions[idx[k]].market_id
        IN IF ~Truthy(market_id) \/ Val(market_id) \in st.unique_market_ids
           THEN BackfillLoop(positions, idx, k + 1, st, now)
           ELSE
             LET seen == [st EXCEPT !.unique_market_ids = @ \cup {Val(market_id)}]
             IN IF QueryMarketByCondition(st.rows, market_id) # 0
                THEN BackfillLoop(positions, idx, k + 1, seen, now)
                ELSE
                  LET resp == get_market(Val(market_id))
                      asked == [seen EXCEPT !.fetched = Append(@, Val(market_id))]
                  IN IF Raises(resp)
                     THEN BackfillLoop(positions, idx, k + 1, asked, now)
                     ELSE BackfillLoop(positions, idx, k + 1,
                            [_store_market(asked, resp.body, now) EXCEPT
                                !.collected_count =
                                    IF FloatRaises(resp.body, "liquidity") THEN @ ELSE @ + 1],
                            now)

(***************************************************************************)
(* What the API may answer                                                 *)
(***************************************************************************)
MarketIds == {"M1", "M2"}

PositionsResponses ==
    {Fail(404), Fail(500)} \cup {Ok(l) : l \in SeqUpTo(PositionPayloads, MaxPositions)}

\* a history of n trades, served without failure or with the request for its last
\* page failing
TradesStates ==
    {[n |-> n, fail |-> None] : n \in 0..MaxTrades}
    \cup {[n |-> n, fail |-> Some([page |-> n \div limit, status |-> st])] :
            n \in 0..MaxTrades, st \in {404, 500}}

ActivityResponses ==
    {Fail(404), Fail(500)} \cup {Ok(l) : l \in SeqUpTo(ActivityPayloads, MaxActivities)}

MarketsStates == [MarketIds -> {Fail(404)} \cup {Ok(m) : m \in MarketPayloads}]

\* market payloads of the listing endpoint (get_markets): a full one, a partial one
\* for the same market, one for that market whose liquidity is null, and another
\* market
ListingPayloads == {
    [id |-> "X1", condition_id |-> "M1", question |-> "q1", volume |-> 3,
     liquidity |-> Some(2),
     outcomes |-> <<"YES", "NO">>, outcome_prices |-> <<6, 4>>, winning_outcome |-> "YES"],
    [id |-> "X1", volume |-> 4],
    [id |-> "X1", question |-> "q9", volume |-> 9, liquidity |-> None],
    [id |-> "X2", condition_id |-> "C2", question |-> "q2"] }

\* what get_markets may answer: a page of markets, or a failure
ListingResponses == {Fail(500)} \cup {Ok(l) : l \in SeqUpTo(ListingPayloads, MaxListing)}

\* the answers of a plain snapshot: one position, one trade, one activity, and the
\* market of that position known to the market API
Plain ==
    [positions |-> Ok(<<[condition_id |-> "M1", outcome |-> "YES", size |-> 10, avgPrice |-> 6,
                         initialValue |-> 6, currentValue |-> 8, realizedPnl |-> 0,
                         cashPnl |-> 2]>>),
     trades |-> [n |-> 1, fail |-> None],
     activity |-> Ok(<<[transactionHash |-> "h1", type |-> "TRADE", conditionId |-> "M1",
                        cashAmount |-> 5, timestamp |-> 10]>>),
     markets |-> [m \in MarketIds |-> IF m = "M1"
                     THEN Ok([id |-> "X1", condition_id |-> "M1", question |-> "q1", volume |-> 3])
                     ELSE Fail(404)]]

\* the snapshots explored: every answer of one endpoint with the other endpoints
\* plain, and every combination of failing and plain endpoints
Snapshots ==
    {[Plain EXCEPT !.positions = r] : r \in PositionsResponses}
    \cup {[Plain EXCEPT !.trades = r] : r \in TradesStates}
    \cup {[Plain EXCEPT !.activity = r] : r \in ActivityResponses}
    \cup {[Plain EXCEPT !.markets = r] : r \in MarketsStates}
    \cup {[Plain EXCEPT !.positions = p, !.trades = t, !.activity = a] :
            p \in {Plain.positions, Fail(404), Fail(500)},
            t \in {Plain.trades} \cup {[n |-> 1, fail |-> Some([page |-> 0, status |-> st])] :
                                        st \in {404, 500}},
            a \in {Plain.activity, Fail(404), Fail(500)}}

\* the snapshots of the market collector's runs: a trader with positions in two
\* markets, and every answer of the market-detail endpoint
MarketSnapshots ==
    {[Plain EXCEPT !.positions = Ok(<<
          [condition_id |-> "M1", outcome |-> "YES", size |-> 10, avgPrice |-> 6,
           initialValue |-> 6, currentValue |-> 8, realizedPnl |-> 0, cashPnl |-> 2],
          [condition_id |-> "M2", outcome |-> "NO", avgPrice |-> 5,
           initialValue |-> 1, realizedPnl |-> 1, cashPnl |-> -1]>>),
        !.markets = r] : r \in MarketsStates}

(***************************************************************************)
(* State machine                                                           *)
(***************************************************************************)
NoTask == [addresses |-> <<>>, i |-> 1, collected |-> 0, attempted |-> <<>>,
           outcomes |-> <<>>, active |-> FALSE, result |-> None]

\* the locals of collect_trader, and what the call has seen: the committed tables
\* when it started and the status of its last positions, trades and activity request
\* (0: none yet)
NoCall == [address |-> "", trader |-> 0, market_ids |-> {}, all_trades |-> <<>>,
           offset |-> 0, fetches |-> 0, fetched_markets |-> <<>>,
           before |-> EmptyTables, positions_status |-> 0, trades_status |-> 0,
           activity_status |-> 0, markets_status |-> 0, markets_data |-> <<>>,
           collected |-> None, collected_count |-> 0, backfill_result |-> <<"none yet">>,
           created |-> FALSE, seen |-> 0]

Init ==
    /\ db = EmptyTables
    /\ work = EmptyTables
    /\ pending = NewSession
    /\ api \in Snapshots
    /\ task = NoTask
    /\ pc = "idle"
    /\ cur = NoCall
    /\ calls = 0
    /\ replay = None

\* the external API changes what it answers (before a collect_trader call)
ApiUpdate ==
    /\ pc = "idle"
    /\ task.active
    /\ task.i <= Len(task.addresses)
    /\ \E s \in Snapshots : s # api /\ api' = s
    /\ replay' = None
    /\ UNCHANGED <<db, work, pending, task, pc, cur, calls>>

\* collect_traders_task(addresses), lines 503-509: a session of its own
StartTask ==
    /\ pc = "idle"
    /\ ~task.active
    /\ \E addresses \in SeqUpTo(Addresses, MaxBatch) :
        /\ addresses # <<>>
        /\ calls + Len(addresses) <= MaxCalls
        /\ task' = [NoTask EXCEPT !.addresses = addresses, !.active = TRUE]
    /\ work' = db
    /\ pending' = NewSession
    /\ UNCHANGED <<db, api, pc, cur, calls, replay>>

\* a rollback that leaves the session as it is
RollbackKeep == /\ work' = work
                /\ pending' = pending

\* Session.rollback(): the transaction's writes and the session's new objects are dropped
Rollback == /\ work' = db
            /\ pending' = NewSession

\* a get-or-create that never looks the address up and creates a trader each time
LoadOrCreateTraderAlwaysNew ==
    /\ pc = "idle"
    /\ task.active
    /\ task.i <= Len(task.addresses)
    /\ calls' = calls + 1
    /\ task' = [task EXCEPT !.attempted = Append(@, task.addresses[task.i])]
    /\ LET address == task.addresses[task.i]
       IN IF pending.needs_rollback
          THEN /\ Rollback
               /\ pc' = "raised"
               /\ cur' = [NoCall EXCEPT !.address = address, !.before = db]
          ELSE /\ pc' = "positions"
               /\ pending' = pending
               /\ work' = [work EXCEPT !.traders = Append(@, NewTrader(address, calls'))]
               /\ cur' = [NoCall EXCEPT !.address = address, !.before = db,
                                        !.trader = Len(work.traders) + 1]
    /\ UNCHANGED <<db, api, replay>>

\* a get-or-create that adds the new trader without flushing it: the rows of the
\* pass refer to an id no row of the table has
LoadOrCreateTraderNoFlush ==
    /\ pc = "idle"
    /\ task.active
    /\ task.i <= Len(task.addresses)
    /\ calls' = calls + 1
    /\ task' = [task EXCEPT !.attempted = Append(@, task.addresses[task.i])]
    /\ LET address == task.addresses[task.i]
           trader == QueryTrader(work, address)
       IN /\ pc' = "positions"
          /\ pending' = pending
          /\ work' = work
          /\ cur' = [NoCall EXCEPT !.address = address, !.before = db,
                                   !.trader = IF trader = 0 THEN Len(work.traders) + 1
                                              ELSE trader]
    /\ UNCHANGED <<db, api, replay>>

\* collect_trader lines 35-53: get or create the trader.  A session whose last
\* flush failed raises on the query, which the handler of lines 75-78 rolls back.
LoadOrCreateTrader ==
    /\ pc = "idle"
    /\ task.active
    /\ task.i <= Len(task.addresses)
    /\ calls' = calls + 1
    /\ task' = [task EXCEPT !.attempted = Append(@, task.addresses[task.i])]
    /\ LET address == task.addresses[task.i]
           trader == QueryTrader(work, address)
       IN IF pending.needs_rollback
          THEN /\ Rollback
               /\ pc' = "raised"
               /\ cur' = [NoCall EXCEPT !.address = address, !.before = db]
          ELSE /\ pc' = "positions"
               /\ pending' = pending
               /\ IF trader = 0
                  THEN /\ work' = [work EXCEPT !.traders = Append(@, NewTrader(address, calls'))]
                       /\ cur' = [NoCall EXCEPT !.address = address, !.before = db,
                                                !.trader = Len(work.traders) + 1]
                  ELSE /\ work' = [work EXCEPT !.traders[trader].trader_url =
                                     IF @ = None THEN Some(<<"profile", address>>) ELSE @]
                       /\ cur' = [NoCall EXCEPT !.address = address, !.before = db,
                                                !.trader = trader]
    /\ UNCHANGED <<db, api, replay>>

\* _collect_positions (lines 80-136) and, when it raises, lines 75-78 of collect_trader
CollectPositions ==
    /\ pc = "positions"
    /\ LET resp == get_user_positions_detailed(cur.address)
           st == StorePositions(resp.body, 1, cur.trader,
                    [rows |-> work.positions, added |-> <<>>, market_ids |-> {}])
       IN IF Raises(resp)
          THEN IF Contains404(StrOfError(resp.status, cur.address))
               THEN /\ pc' = "trades"
                    /\ cur' = [cur EXCEPT !.positions_status = resp.status]
                    /\ UNCHANGED <<work, pending>>
               ELSE /\ Rollback
                    /\ pc' = "raised"
                    /\ cur' = [cur EXCEPT !.positions_status = resp.status]
          ELSE /\ work' = [work EXCEPT !.positions = st.rows]
               /\ pending' = [pending EXCEPT !.positions = @ \o st.added]
               /\ cur' = [cur EXCEPT !.market_ids = st.market_ids,
                                     !.positions_status = resp.status]
               /\ pc' = "trades"
    /\ UNCHANGED <<db, api, task, calls, replay>>

\* a fetch loop that, on a 404, computes the statistics from the pages it has
FetchTradesKeepPartial ==
    /\ pc = "trades"
    /\ LET resp == get_user_trades(cur.address, limit, cur.offset)
           trades == resp.body
           asked == [cur EXCEPT !.fetches = @ + 1, !.trades_status = resp.status]
       IN IF Raises(resp)
          THEN IF Contains404(StrOfError(resp.status, cur.address))
               THEN /\ pc' = "activities"
                    /\ cur' = asked
                    /\ pending' = pending
                    /\ work' = IF cur.all_trades = <<>> THEN work
                               ELSE [work EXCEPT !.traders[cur.trader] =
                                       TradeStats(@, cur.trader, cur.all_trades, work.positions)]
               ELSE /\ Rollback
                    /\ pc' = "raised"
                    /\ cur' = asked
          ELSE /\ UNCHANGED <<work, pending>>
               /\ IF trades = <<>>
                  THEN /\ pc' = "stats"
                       /\ cur' = asked
                  ELSE IF Len(trades) < limit
                  THEN /\ pc' = "stats"
                       /\ cur' = [asked EXCEPT !.all_trades = @ \o trades]
                  ELSE /\ pc' = "trades"
                       /\ cur' = [asked EXCEPT !.all_trades = @ \o trades,
                                               !.offset = @ + limit]
    /\ UNCHANGED <<db, api, task, calls, replay>>

\* a fetch loop that stops at an empty page only: a short page is followed by
\* another request
FetchTradesUntilEmpty ==
    /\ pc = "trades"
    /\ LET resp == get_user_trades(cur.address, limit, cur.offset)
           trades == resp.body
           asked == [cur EXCEPT !.fetches = @ + 1, !.trades_status = resp.status]
       IN IF Raises(resp)
          THEN IF Contains404(StrOfError(resp.status, cur.address))
               THEN /\ pc' = "activities"
                    /\ cur' = asked
                    /\ UNCHANGED <<work, pending>>
               ELSE /\ Rollback
                    /\ pc' = "raised"
                    /\ cur' = asked
          ELSE /\ UNCHANGED <<work, pending>>
               /\ IF trades = <<>>
                  THEN /\ pc' = "stats"
                       /\ cur' = asked
                  ELSE /\ pc' = "trades"
                       /\ cur' = [asked EXCEPT !.all_trades = @ \o trades,
                                               !.offset = @ + limit]
    /\ UNCHANGED <<db, api, task, calls, replay>>

\* one iteration of the `while True` loop of _collect_trades_and_stats (lines 183-193),
\* with the handler of lines 243-247
FetchTrades ==
    /\ pc = "trades"
    /\ LET resp == get_user_trades(cur.address, limit, cur.offset)
           trades == resp.body
           asked == [cur EXCEPT !.fetches = @ + 1, !.trades_status = resp.status]
       IN IF Raises(resp)
          THEN IF Contains404(StrOfError(resp.status, cur.address))
               THEN /\ pc' = "activities"
                    /\ cur' = asked
                    /\ UNCHANGED <<work, pending>>
               ELSE /\ Rollback
                    /\ pc' = "raised"
                    /\ cur' = asked
          ELSE /\ UNCHANGED <<work, pending>>
               /\ IF trades = <<>>
                  THEN /\ pc' = "stats"
                       /\ cur' = asked
                  ELSE IF Len(trades) < limit
                  THEN /\ pc' = "stats"
                       /\ cur' = [asked EXCEPT !.all_trades = @ \o trades]
                  ELSE /\ pc' = "trades"
                       /\ cur' = [asked EXCEPT !.all_trades = @ \o trades,
                                               !.offset = @ + limit]
    /\ UNCHANGED <<db, api, task, calls, replay>>

\* a trades pass after which collect_trader commits at once, without the activity pass
TradesAndStatsThenCommit ==
    /\ pc = "stats"
    /\ IF cur.all_trades = <<>>
       THEN work' = work
       ELSE work' = [work EXCEPT !.traders[cur.trader] =
                        TradeStats(@, cur.trader, cur.all_trades, work.positions)]
    /\ pc' = "commit"
    /\ UNCHANGED <<db, pending, api, task, cur, calls, replay>>

\* a trades pass that refreshes win_rate and avg_position_size from the positions
\* even when no trade was fetched
TradesAndStatsRecalculate ==
    /\ pc = "stats"
    /\ IF cur.all_trades = <<>>
       THEN work' = [work EXCEPT
                !.traders[cur.trader].win_rate = _calculate_win_rate(work.positions, cur.trader),
                !.traders[cur.trader].avg_position_size =
                    _calculate_avg_position_size(work.positions, cur.trader)]
       ELSE work' = [work EXCEPT !.traders[cur.trader] =
                        TradeStats(@, cur.trader, cur.all_trades, work.positions)]
    /\ pc' = "activities"
    /\ UNCHANGED <<db, pending, api, task, cur, calls, replay>>

\* _collect_trades_and_stats after the loop (lines 195-241)
TradesAndStats ==
    /\ pc = "stats"
    /\ IF cur.all_trades = <<>>
       THEN work' = work
       ELSE work' = [work EXCEPT !.traders[cur.trader] =
                        TradeStats(@, cur.trader, cur.all_trades, work.positions)]
    /\ pc' = "activities"
    /\ UNCHANGED <<db, pending, api, task, cur, calls, replay>>

\* an activity pass that lets the failure of its request abort the call
CollectActivitiesAbort ==
    /\ pc = "activities"
    /\ LET resp == get_user_activity_detailed(cur.address)
       IN IF Raises(resp)
          THEN /\ Rollback
               /\ pc' = "raised"
          ELSE /\ pending' = [pending EXCEPT !.activities =
                             @ \o StoreActivities(resp.body, 1, cur.trader, work.activities, <<>>)]
               /\ work' = work
               /\ pc' = "commit"
    /\ cur' = [cur EXCEPT !.activity_status = get_user_activity_detailed(cur.address).status]
    /\ UNCHANGED <<db, api, task, calls, replay>>

\* an activity pass that overwrites the stored row of a payload whose hash is known
CollectActivitiesUpsert ==
    /\ pc = "activities"
    /\ LET resp == get_user_activity_detailed(cur.address)
           HashOf(k) == Or(Get(resp.body[k], "transactionHash"), Get(resp.body[k], "txHash"))
           Hits(i) == {k \in DOMAIN resp.body :
                          /\ Truthy(HashOf(k))
                          /\ work.activities[i].trader_id = cur.trader
                          /\ work.activities[i].transaction_hash = HashOf(k)}
       IN IF Raises(resp)
          THEN /\ pending' = pending
               /\ work' = work
          ELSE /\ pending' = [pending EXCEPT !.activities =
                             @ \o StoreActivities(resp.body, 1, cur.trader, work.activities, <<>>)]
               /\ work' = [work EXCEPT !.activities = [i \in DOMAIN work.activities |->
                             IF Hits(i) # {}
                             THEN _create_activity(cur.trader, resp.body[CHOOSE k \in Hits(i) : TRUE])
                             ELSE work.activities[i]]]
    /\ cur' = [cur EXCEPT !.activity_status = get_user_activity_detailed(cur.address).status]
    /\ pc' = "commit"
    /\ UNCHANGED <<db, api, task, calls, replay>>

\* _collect_activities (lines 290-350)
CollectActivities ==
    /\ pc = "activities"
    /\ LET resp == get_user_activity_detailed(cur.address)
       IN IF Raises(resp)
          THEN pending' = pending
          ELSE pending' = [pending EXCEPT !.activities =
                             @ \o StoreActivities(resp.body, 1, cur.trader, work.activities, <<>>)]
    /\ cur' = [cur EXCEPT !.activity_status = get_user_activity_detailed(cur.address).status]
    /\ pc' = "commit"
    /\ UNCHANGED <<db, work, api, task, calls, replay>>

\* collect_trader lines 64-65 (and 75-78 when the flush fails)
Commit ==
    /\ pc = "commit"
    /\ LET synced == [work EXCEPT !.traders[cur.trader].last_synced_at = calls]
       IN IF FlushOk(synced, pending)
          THEN /\ db' = Flush(synced, pending)
               /\ work' = db'
               /\ pending' = NewSession
               /\ pc' = IF cur.market_ids # {} THEN "backfill" ELSE "returned"
          ELSE /\ Rollback
               /\ pc' = "raised"
               /\ db' = db
    /\ UNCHANGED <<api, task, cur, calls, replay>>

\* a backfill whose failed commit is not caught: collect_trader rolls back and raises
BackfillRaises ==
    /\ pc = "backfill"
    /\ LET idx == PositionsOf(work.positions, cur.trader)
           st == BackfillLoop(work.positions, idx, 1,
                    [rows |-> work.markets, added |-> <<>>, unique_market_ids |-> {},
                     collected_count |-> 0, fetched |-> <<>>], calls)
           stored == [work EXCEPT !.markets = st.rows]
           session == [pending EXCEPT !.markets = st.added]
       IN /\ cur' = [cur EXCEPT !.fetched_markets = st.fetched,
                                !.collected_count = st.collected_count,
                                !.backfill_result = BackfillReturn(st.collected_count)]
          /\ IF st.collected_count > 0
             THEN IF FlushOk(stored, session)
                  THEN /\ db' = Flush(stored, session)
                       /\ work' = db'
                       /\ pending' = NewSession
                       /\ pc' = "returned"
                  ELSE /\ db' = db
                       /\ Rollback
                       /\ pc' = "raised"
             ELSE /\ UNCHANGED <<db, work, pending>>
                  /\ pc' = "returned"
    /\ UNCHANGED <<api, task, calls, replay>>

\* _collect_trader_markets_from_positions (lines 381-442), called at lines 69-71
Backfill ==
    /\ pc = "backfill"
    /\ LET idx == PositionsOf(work.positions, cur.trader)
           st == BackfillLoop(work.positions, idx, 1,
                    [rows |-> work.markets, added |-> <<>>, unique_market_ids |-> {},
                     collected_count |-> 0, fetched |-> <<>>], calls)
           stored == [work EXCEPT !.markets = st.rows]
           session == [pending EXCEPT !.markets = st.added]
       IN /\ cur' = [cur EXCEPT !.fetched_markets = st.fetched,
                                !.collected_count = st.collected_count,
                                !.backfill_result = BackfillReturn(st.collected_count)]
          /\ IF st.collected_count > 0
             THEN IF FlushOk(stored, session)
                  THEN /\ db' = Flush(stored, session)
                       /\ work' = db'
                       /\ pending' = NewSession
                  ELSE /\ db' = db
                       /\ work' = db
                       /\ pending' = [NewSession EXCEPT !.needs_rollback = TRUE]
             ELSE UNCHANGED <<db, work, pending>>
    /\ pc' = "returned"
    /\ UNCHANGED <<api, task, calls, replay>>

\* the trader's committed rows, as the replay comparison needs them
Summary(address) ==
    LET t == QueryTrader(db, address)
    IN [address |-> address,
        positions |-> Len(PositionsOf(db.positions, t)),
        activities |-> Cardinality({i \in DOMAIN db.activities : db.activities[i].trader_id = t}),
        stats |-> [f \in {"total_volume", "total_trades", "markets_traded", "win_rate",
                          "avg_position_size"} |-> db.traders[t][f]]]

\* a loop that gives up the batch at the first address that raises
TaskNextAbort ==
    /\ pc \in {"returned", "raised"}
    /\ task' = [task EXCEPT !.i = IF pc = "raised" THEN Len(task.addresses) + 1 ELSE @ + 1,
                            !.collected = IF pc = "returned" THEN @ + 1 ELSE @,
                            !.outcomes = Append(@, pc)]
    /\ replay' = IF pc = "returned" THEN Some(Summary(cur.address)) ELSE None
    /\ pc' = "idle"
    /\ cur' = NoCall
    /\ UNCHANGED <<db, work, pending, api, calls>>

\* collect_traders_task lines 511-517: the call returned or raised; next address
TaskNext ==
    /\ pc \in {"returned", "raised"}
    /\ task' = [task EXCEPT !.i = @ + 1,
                            !.collected = IF pc = "returned" THEN @ + 1 ELSE @,
                            !.outcomes = Append(@, pc)]
    /\ replay' = IF pc = "returned" THEN Some(Summary(cur.address)) ELSE None
    /\ pc' = "idle"
    /\ cur' = NoCall
    /\ UNCHANGED <<db, work, pending, api, calls>>

\* collect_traders_task lines 519-521: return collected; db.close()
TaskReturn ==
    /\ pc = "idle"
    /\ task.active
    /\ task.i > Len(task.addresses)
    /\ task' = [task EXCEPT !.active = FALSE, !.result = Some(task.collected)]
    /\ work' = db
    /\ pending' = NewSession
    /\ UNCHANGED <<db, api, pc, cur, calls, replay>>

Next ==
    \/ ApiUpdate
    \/ StartTask
    \/ LoadOrCreateTrader
    \/ CollectPositions
    \/ FetchTrades
    \/ TradesAndStats
    \/ CollectActivities
    \/ Commit
    \/ Backfill
    \/ TaskNext
    \/ TaskReturn

Spec == Init /\ [][Next]_vars

\* collect_markets_task / MarketCollector.collect_markets (lines 24-73), in a session
\* of its own: fetch a page, store each market, commit; a failed request or a failed
\* commit is rolled back and raised
collect_markets ==
    /\ pc = "idle"
    /\ ~task.active
    /\ calls < MaxCalls
    /\ calls' = calls + 1
    /\ \E resp \in ListingResponses :
        LET markets_data == resp.body
            st == StoreMarkets(markets_data, 1,
                     [rows |-> db.markets, added |-> <<>>, collected |-> 0], calls')
            stored == [db EXCEPT !.markets = st.rows]
            session == [NewSession EXCEPT !.markets = st.added]
            call == [NoCall EXCEPT !.before = db, !.markets_status = resp.status,
                                   !.markets_data = markets_data]
        IN IF Raises(resp)
           THEN /\ pc' = "markets_raised"
                /\ cur' = call
                /\ db' = db
           ELSE IF markets_data = <<>>
           THEN /\ pc' = "markets_returned"
                /\ cur' = [call EXCEPT !.collected = Some(0)]
                /\ db' = db
           ELSE IF FlushOk(stored, session)
           THEN /\ pc' = "markets_returned"
                /\ cur' = [call EXCEPT !.collected = Some(st.collected)]
                /\ db' = Flush(stored, session)
           ELSE /\ pc' = "markets_raised"
                /\ cur' = call
                /\ db' = db
    /\ work' = db'
    /\ pending' = NewSession
    /\ UNCHANGED <<api, task, replay>>

\* collect_markets_task lines 165-167: the result is handed to the caller; db.close()
collect_markets_task ==
    /\ pc \in {"markets_returned", "markets_raised"}
    /\ pc' = "idle"
    /\ cur' = NoCall
    /\ UNCHANGED <<db, work, pending, api, task, calls, replay>>

\* the runs of the market collector and of the trader collector on one store, the
\* API answering the same throughout
MarketInit ==
    /\ db = EmptyTables
    /\ work = EmptyTables
    /\ pending = NewSession
    /\ api \in MarketSnapshots
    /\ task = NoTask
    /\ pc = "idle"
    /\ cur = NoCall
    /\ calls = 0
    /\ replay = None

MarketNext ==
    \/ collect_markets
    \/ collect_markets_task
    \/ StartTask
    \/ LoadOrCreateTrader
    \/ CollectPositions
    \/ FetchTrades
    \/ TradesAndStats
    \/ CollectActivities
    \/ Commit
    \/ Backfill
    \/ TaskNext
    \/ TaskReturn

MarketSpec == MarketInit /\ [][MarketNext]_vars

(***************************************************************************)
(* Two collect_trader(address, collect_markets=False) runs for one address,  *)
(* each on a session and a transaction of its own (MySQL/InnoDB, REPEATABLE  *)
(* READ: a transaction reads the snapshot of its first query, plus its own   *)
(* writes).  Here work, pending, pc and cur hold one value per run, and      *)
(* task.collected counts the commits.                                        *)
(***************************************************************************)
Runs == {1, 2}

RaceAddress == "0xa1"

\* the stores the two runs may start on: no trader yet, the trader without
\* positions, the trader with the position of the plain snapshot
RaceStores ==
    {EmptyTables,
     [EmptyTables EXCEPT !.traders = <<NewTrader(RaceAddress, 0)>>],
     [EmptyTables EXCEPT !.traders = <<NewTrader(RaceAddress, 0)>>,
                         !.positions = <<_create_position(1, Plain.positions.body[1])>>]}

\* the API answers during the two runs (payloads that name each position once)
RaceSnapshots ==
    {Plain,
     [Plain EXCEPT !.positions = Fail(404)],
     [Plain EXCEPT !.positions = Ok(<<
          [condition_id |-> "M2", outcome |-> "NO", avgPrice |-> 5,
           initialValue |-> 1, realizedPnl |-> 1, cashPnl |-> -1],
          [condition_id |-> "M1", outcome |-> "YES", size |-> 4, avgPrice |-> 7,
           initialValue |-> 3, currentValue |-> 2, realizedPnl |-> 0, cashPnl |-> -1]>>),
        !.trades = [n |-> 3, fail |-> None]],
     [Plain EXCEPT !.trades = [n |-> 1, fail |-> Some([page |-> 0, status |-> 500])]]}

\* the `while True` loop of _collect_trades_and_stats (lines 183-193) as a whole:
\* the status of its last request and the trades it gathered
RECURSIVE TradesLoop(_, _, _)
TradesLoop(address, offset, all_trades) ==
    LET resp == get_user_trades(address, limit, offset)
    IN IF Raises(resp) THEN [status |-> resp.status, all_trades |-> all_trades]
       ELSE IF resp.body = <<>> THEN [status |-> 200, all_trades |-> all_trades]
       ELSE IF Len(resp.body) < limit
       THEN [status |-> 200, all_trades |-> all_trades \o resp.body]
       ELSE TradesLoop(address, offset + limit, all_trades \o resp.body)

\* the UPDATE the unit of work emits for a loaded object: the attributes the run
\* changed, on top of the row as committed now
MergeRow(current, loaded, changed) ==
    [f \in DOMAIN current |-> IF changed[f] # loaded[f] THEN changed[f] ELSE current[f]]

RaceInit ==
    /\ db \in RaceStores
    /\ work = [r \in Runs |-> EmptyTables]
    /\ pending = [r \in Runs |-> NewSession]
    /\ api \in RaceSnapshots
    /\ task = NoTask
    /\ pc = [r \in Runs |-> "idle"]
    /\ cur = [r \in Runs |-> NoCall]
    /\ calls = 0
    /\ replay = None

\* lines 75-78 in run r: rollback and re-raise
RaceRollback(r) ==
    /\ work' = [work EXCEPT ![r] = db]
    /\ pending' = [pending EXCEPT ![r] = NewSession]
    /\ pc' = [pc EXCEPT ![r] = "raised"]

\* line 39 in run r: the first query opens the transaction and its snapshot
RaceLoad(r) ==
    /\ pc[r] = "idle"
    /\ calls' = calls + 1
    /\ LET trader == QueryTrader(db, RaceAddress)
           call == [NoCall EXCEPT !.address = RaceAddress, !.before = db,
                                  !.trader = trader, !.seen = task.collected]
       IN /\ cur' = [cur EXCEPT ![r] = call]
          /\ IF trader = 0
             THEN /\ work' = [work EXCEPT ![r] = db]
                  /\ pc' = [pc EXCEPT ![r] = "create"]
             ELSE /\ work' = [work EXCEPT ![r] = [db EXCEPT !.traders[trader].trader_url =
                                   IF @ = None THEN Some(<<"profile", RaceAddress>>) ELSE @]]
                  /\ pc' = [pc EXCEPT ![r] = "positions"]
    /\ UNCHANGED <<db, pending, api, task, replay>>

\* lines 42-48 in run r: INSERT of the new trader.  The unique index on
\* traders.address makes the statement wait while another transaction holds an
\* uncommitted row for the address, and fail when a committed one exists.
RaceCreate(r) ==
    /\ pc[r] = "create"
    /\ \A o \in Runs \ {r} :
          ~(cur[o].created /\ pc[o] \in {"positions", "trades", "activities", "commit"})
    /\ IF QueryTrader(db, RaceAddress) # 0
       THEN /\ RaceRollback(r)
            /\ cur' = [cur EXCEPT ![r].created = TRUE]
       ELSE /\ work' = [work EXCEPT ![r].traders = Append(@, NewTrader(RaceAddress, calls))]
            /\ cur' = [cur EXCEPT ![r].created = TRUE,
                                  ![r].trader = Len(work[r].traders) + 1]
            /\ pc' = [pc EXCEPT ![r] = "positions"]
            /\ pending' = pending
    /\ UNCHANGED <<db, api, task, calls, replay>>

\* a position pass whose lookups read the rows committed by now, not the snapshot
RacePositionsReadCommitted(r) ==
    /\ pc[r] = "positions"
    /\ LET resp == get_user_positions_detailed(cur[r].address)
           st == StorePositions(resp.body, 1, cur[r].trader,
                    [rows |-> db.positions, added |-> <<>>, market_ids |-> {}])
       IN IF Raises(resp)
          THEN IF Contains404(StrOfError(resp.status, cur[r].address))
               THEN /\ pc' = [pc EXCEPT ![r] = "trades"]
                    /\ cur' = [cur EXCEPT ![r].positions_status = resp.status]
                    /\ UNCHANGED <<work, pending>>
               ELSE /\ RaceRollback(r)
                    /\ cur' = [cur EXCEPT ![r].positions_status = resp.status]
          ELSE /\ work' = [work EXCEPT ![r].positions = st.rows]
               /\ pending' = [pending EXCEPT ![r].positions = @ \o st.added]
               /\ cur' = [cur EXCEPT ![r].market_ids = st.market_ids,
                                     ![r].positions_status = resp.status,
                                     ![r].before = [cur[r].before EXCEPT !.positions = db.positions]]
               /\ pc' = [pc EXCEPT ![r] = "trades"]
    /\ UNCHANGED <<db, api, task, calls, replay>>

\* _collect_positions in run r
RacePositions(r) ==
    /\ pc[r] = "positions"
    /\ LET resp == get_user_positions_detailed(cur[r].address)
           st == StorePositions(resp.body, 1, cur[r].trader,
                    [rows |-> work[r].positions, added |-> <<>>, market_ids |-> {}])
       IN IF Raises(resp)
          THEN IF Contains404(StrOfError(resp.status, cur[r].address))
               THEN /\ pc' = [pc EXCEPT ![r] = "trades"]
                    /\ cur' = [cur EXCEPT ![r].positions_status = resp.status]
                    /\ UNCHANGED <<work, pending>>
               ELSE /\ RaceRollback(r)
                    /\ cur' = [cur EXCEPT ![r].positions_status = resp.status]
          ELSE /\ work' = [work EXCEPT ![r].positions = st.rows]
               /\ pending' = [pending EXCEPT ![r].positions = @ \o st.added]
               /\ cur' = [cur EXCEPT ![r].market_ids = st.market_ids,
                                     ![r].positions_status = resp.status]
               /\ pc' = [pc EXCEPT ![r] = "trades"]
    /\ UNCHANGED <<db, api, task, calls, replay>>

\* _collect_trades_and_stats in run r
RaceTrades(r) ==
    /\ pc[r] = "trades"
    /\ LET got == TradesLoop(cur[r].address, 0, <<>>)
           seen == [cur EXCEPT ![r].trades_status = got.status, ![r].all_trades = got.all_trades]
       IN IF got.status # 200
          THEN IF Contains404(StrOfError(got.status, cur[r].address))
               THEN /\ pc' = [pc EXCEPT ![r] = "activities"]
                    /\ cur' = seen
                    /\ UNCHANGED <<work, pending>>
               ELSE /\ RaceRollback(r)
                    /\ cur' = seen
          ELSE /\ cur' = seen
               /\ pc' = [pc EXCEPT ![r] = "activities"]
               /\ pending' = pending
               /\ work' = IF got.all_trades = <<>> THEN work
                          ELSE [work EXCEPT ![r].traders[cur[r].trader] =
                                  TradeStats(@, cur[r].trader, got.all_trades, work[r].positions)]
    /\ UNCHANGED <<db, api, task, calls, replay>>

\* _collect_activities in run r
RaceActivities(r) ==
    /\ pc[r] = "activities"
    /\ LET resp == get_user_activity_detailed(cur[r].address)
       IN /\ pending' = IF Raises(resp) THEN pending
                        ELSE [pending EXCEPT ![r].activities = @ \o
                                StoreActivities(resp.body, 1, cur[r].trader, work[r].activities, <<>>)]
          /\ cur' = [cur EXCEPT ![r].activity_status = resp.status]
    /\ pc' = [pc EXCEPT ![r] = "commit"]
    /\ UNCHANGED <<db, work, api, task, calls, replay>>

\* lines 64-65 and 73 in run r: the flush writes the run's changes and new rows
\* onto the tables as committed now, and the transaction commits
RaceCommit(r) ==
    /\ pc[r] = "commit"
    /\ LET t == cur[r].trader
           mine == [work[r].traders[t] EXCEPT !.last_synced_at = calls]
           traders == IF cur[r].created THEN Append(db.traders, mine)
                      ELSE [db.traders EXCEPT ![t] = MergeRow(@, cur[r].before.traders[t], mine)]
           positions == [i \in DOMAIN db.positions |->
                           IF i \in DOMAIN cur[r].before.positions
                           THEN MergeRow(db.positions[i], cur[r].before.positions[i],
                                         work[r].positions[i])
                           ELSE db.positions[i]]
           stored == [db EXCEPT !.traders = traders, !.positions = positions]
       IN IF FlushOk(stored, pending[r])
          THEN /\ db' = Flush(stored, pending[r])
               /\ work' = [work EXCEPT ![r] = db']
               /\ pending' = [pending EXCEPT ![r] = NewSession]
               /\ pc' = [pc EXCEPT ![r] = "returned"]
               /\ task' = [task EXCEPT !.collected = @ + 1]
          ELSE /\ RaceRollback(r)
               /\ UNCHANGED <<db, task>>
    /\ UNCHANGED <<api, cur, calls, replay>>

RaceNext ==
    \E r \in Runs :
        \/ RaceLoad(r)
        \/ RaceCreate(r)
        \/ RacePositions(r)
        \/ RaceTrades(r)
        \/ RaceActivities(r)
        \/ RaceCommit(r)

RaceSpec == RaceInit /\ [][RaceNext]_vars

(***************************************************************************)
(* Claims                                                                  *)
(***************************************************************************)
\* the call that just ended ran on the same API snapshot as the call before it,
\* which returned normally, and for the same address
Replayed ==
    /\ pc \in {"returned", "raised"}
    /\ replay # None
    /\ Val(replay).address = cur.address

\* every payload of the activity feed carries a transaction hash
AllHashed ==
    \A k \in DOMAIN api.activity.body :
        Truthy(Or(Get(api.activity.body[k], "transactionHash"), Get(api.activity.body[k], "txHash")))

\* C1 as stated: a second collect_trader run on an unchanged snapshot leaves the
\* trader's number of Position rows and of Activity rows as the first run left them.
C1_RowCountIdempotence ==
    Replayed =>
        /\ Summary(cur.address).positions = Val(replay).positions
        /\ Summary(cur.address).activities = Val(replay).activities

\* C1 amended: the same, for snapshots whose activity payloads all carry a
\* transaction hash (a payload without one is inserted again by every run).
C1_RowCountIdempotenceHashed ==
    (Replayed /\ AllHashed) =>
        /\ Summary(cur.address).positions = Val(replay).positions
        /\ Summary(cur.address).activities = Val(replay).activities

C1_Witness ==
    /\ Replayed
    /\ pc = "returned"
    /\ AllHashed
    /\ Len(api.activity.body) = MaxActivities
    /\ Val(replay).positions >= 1
    /\ Val(replay).activities >= 1

\* C2: after a second collect_trader run on an unchanged snapshot the trader's
\* total_volume, total_trades, markets_traded, win_rate and avg_position_size equal
\* their values after the first run.
C2_StatsStableUnderReplay ==
    Replayed => Summary(cur.address).stats = Val(replay).stats

\* C3: every committed state holds at most one Position row per (trader, market
\* identifier, outcome).
C3_PositionUnique ==
    \A i, j \in DOMAIN db.positions :
        (/\ db.positions[i].trader_id = db.positions[j].trader_id
         /\ db.positions[i].market_id = db.positions[j].market_id
         /\ db.positions[i].outcome = db.positions[j].outcome) => i = j

\* the last entry of the positions payload with the key of entry k
LastWithKey(payload, k) ==
    payload[CHOOSE m \in DOMAIN payload :
        /\ Get(payload[m], "condition_id") = Get(payload[k], "condition_id")
        /\ Get(payload[m], "outcome") = Get(payload[k], "outcome")
        /\ \A n \in DOMAIN payload :
            (/\ Get(payload[n], "condition_id") = Get(payload[k], "condition_id")
             /\ Get(payload[n], "outcome") = Get(payload[k], "outcome")) => n <= m]

\* the row holds every value the payload entry supplies
HoldsEntry(row, entry) ==
    /\ "size" \in DOMAIN entry => row.size = entry.size
    /\ "currentValue" \in DOMAIN entry => row.current_value = entry.currentValue
    /\ "avgPrice" \in DOMAIN entry => row.avg_entry_price = entry.avgPrice
    /\ "realizedPnl" \in DOMAIN entry => row.realized_pnl = entry.realizedPnl
    /\ "cashPnl" \in DOMAIN entry => row.unrealized_pnl = entry.cashPnl

\* C4: after a collect_trader that committed, the Position row of (trader, m, o)
\* holds the size, current value, average entry price, realized and unrealized PnL
\* of the payload's (last) entry for (m, o).
C4_UpsertLastWriteWins ==
    (pc \in {"backfill", "returned"} /\ cur.positions_status = 200) =>
        \A k \in DOMAIN api.positions.body : \A i \in DOMAIN db.positions :
            (/\ db.positions[i].trader_id = cur.trader
             /\ db.positions[i].market_id = Get(api.positions.body[k], "condition_id")
             /\ db.positions[i].outcome = Get(api.positions.body[k], "outcome"))
            => HoldsEntry(db.positions[i], LastWithKey(api.positions.body, k))

\* C5: the committed Activity rows of a trader hold each transaction hash at most once.
C5_ActivityHashUnique ==
    \A i, j \in DOMAIN db.activities :
        (/\ db.activities[i].transaction_hash # None
         /\ db.activities[i].trader_id = db.activities[j].trader_id
         /\ db.activities[i].transaction_hash = db.activities[j].transaction_hash) => i = j

\* C6: when collect_trader raises, the committed tables are those of before the call
\* and the session keeps nothing the failed pass created or changed.
C6_AtomicRollback ==
    pc = "raised" =>
        /\ db = cur.before
        /\ work = db
        /\ pending = NewSession

C6_Witness ==
    /\ pc = "raised"
    /\ cur.positions_status = 200
    /\ cur.trades_status = 500
    /\ cur.trader > Len(db.traders)

\* C7: collect_traders_task calls collect_trader for its addresses in order, each
\* once, whatever the earlier calls did, and returns the number of calls that did
\* not raise.
C7_BatchIsolation ==
    /\ Len(task.attempted) <= Len(task.addresses)
    /\ task.attempted = SubSeq(task.addresses, 1, Len(task.attempted))
    /\ task.result # None =>
        /\ task.attempted = task.addresses
        /\ Len(task.outcomes) = Len(task.addresses)
        /\ Val(task.result) =
             Cardinality({k \in DOMAIN task.outcomes : task.outcomes[k] = "returned"})

C7_Witness ==
    /\ task.result # None
    /\ task.outcomes = <<"raised", "returned">>
    /\ Val(task.result) = 1

C9_OtherFailuresPropagate ==
    (\/ cur.positions_status \notin {0, 200, 404}
     \/ cur.trades_status \notin {0, 200, 404}) => pc = "raised"

\* C10: a failed activity request never makes collect_trader raise, and the position
\* rows and trade statistics of the pass are committed.
C10_ActivityBestEffort ==
    cur.activity_status \notin {0, 200} =>
        /\ pc \in {"commit", "backfill", "returned"}
        /\ (pc \in {"backfill", "returned"} /\ cur.positions_status = 200) =>
             \A k \in DOMAIN api.positions.body : \E i \in DOMAIN db.positions :
                /\ db.positions[i].trader_id = cur.trader
                /\ db.positions[i].market_id = Get(api.positions.body[k], "condition_id")
                /\ db.positions[i].outcome = Get(api.positions.body[k], "outcome")
        /\ (pc \in {"backfill", "returned"} /\ cur.trades_status = 200 /\ cur.all_trades # <<>>) =>
             /\ db.traders[cur.trader].total_trades = Len(cur.all_trades)
             /\ db.traders[cur.trader].last_synced_at = calls

C10_Witness ==
    /\ cur.activity_status = 500
    /\ pc = "returned"
    /\ cur.positions_status = 200
    /\ cur.all_trades # <<>>
    /\ cur.trader > Len(cur.before.traders)
    /\ \E i \in DOMAIN db.positions : db.positions[i].trader_id = cur.trader

\* C11: after every collect_trader that returned, a trader with at least one Position
\* row has win_rate = 100 * (rows with realized_pnl + unrealized_pnl > 0) / (rows),
\* between 0 and 100, and a trader with no Position row has win_rate null.
C11_WinRateInvariant ==
    pc = "returned" =>
        LET idx == PositionsOf(db.positions, cur.trader)
            wins == Cardinality({i \in Range(idx) :
                        db.positions[i].realized_pnl + db.positions[i].unrealized_pnl > 0})
            win_rate == db.traders[cur.trader].win_rate
        IN IF idx = <<>> THEN win_rate = None
           ELSE /\ win_rate # None
                /\ Val(win_rate)[1] * Len(idx) = Val(win_rate)[2] * 100 * wins
                /\ 0 <= Val(win_rate)[1]
                /\ Val(win_rate)[1] <= 100 * Val(win_rate)[2]

\* C12: a previously unknown trader whose position fetch returns the one position
\* (realized 0, unrealized 2, initial value 6) has win_rate = 100 and
\* avg_position_size = 6 after that single collect_trader run (here: a run that
\* also found trades, so that the calculators ran).
C12_FirstPassStats ==
    (/\ pc = "returned"
     /\ cur.trader > Len(cur.before.traders)
     /\ api.positions = Plain.positions
     /\ cur.trades_status = 200
     /\ cur.all_trades # <<>>) =>
        /\ db.traders[cur.trader].win_rate = Some(<<100, 1>>)
        /\ db.traders[cur.trader].avg_position_size = Some(<<6, 1>>)

\* the calculators of the trades pass have just run in this call
StatsRan ==
    /\ pc = "activities"
    /\ cur.trades_status = 200
    /\ cur.all_trades # <<>>

RECURSIVE SumInitialValue(_, _)
\* the sum of initial_value over the rows S of positions
SumInitialValue(positions, S) ==
    IF S = {} THEN 0
    ELSE LET i == CHOOSE x \in S : TRUE
         IN positions[i].initial_value + SumInitialValue(positions, S \ {i})

\* C13: when _calculate_avg_position_size has run, avg_position_size is (sum of
\* initial_value over the trader's Position rows) / (number of those rows) if there
\* is a row, and null if there is none.
C13_AvgPositionSize ==
    StatsRan =>
        LET rows == {i \in DOMAIN work.positions : work.positions[i].trader_id = cur.trader}
            avg == work.traders[cur.trader].avg_position_size
        IN IF rows = {} THEN avg = None
           ELSE /\ avg # None
                /\ Val(avg)[2] > 0
                /\ Val(avg)[1] * Cardinality(rows) =
                      Val(avg)[2] * SumInitialValue(work.positions, rows)

C13_Witness ==
    /\ StatsRan
    /\ Len(PositionsOf(work.positions, cur.trader)) = 2
    /\ work.traders[cur.trader].avg_position_size = Some(<<7, 2>>)

\* C14: the trades pass requests the pages at offsets 0, limit, 2*limit, ..., asks
\* for the next page only after a page of exactly limit trades, and stops at the
\* first short or empty page: a history of n trades served without failure costs
\* n \div limit + 1 requests (two full pages and a short third one: three).
C14_PaginationStopRule ==
    /\ pc = "trades" =>
        /\ cur.offset = cur.fetches * limit
        /\ Len(cur.all_trades) = cur.offset
        /\ cur.offset <= api.trades.n
    /\ pc = "stats" =>
        /\ cur.fetches = (Len(cur.all_trades) \div limit) + 1
        /\ cur.offset = (cur.fetches - 1) * limit
        /\ cur.all_trades = TradeHistory(api.trades.n)

C14_Witness ==
    /\ pc = "stats"
    /\ Len(cur.all_trades) = 2 * limit + 1
    /\ cur.fetches = 3

\* a collect_markets call that received a page of markets has just ended
MarketsStored ==
    /\ pc \in {"markets_returned", "markets_raised"}
    /\ cur.markets_status = 200

\* C15: every committed state holds at most one Market row per market identifier,
\* and after a collect_markets call every payload of its page has its row: a
\* payload whose identifier was absent has a new row, a payload whose identifier
\* was present has the row it had.
C15_MarketUpsert ==
    /\ \A i, j \in DOMAIN db.markets :
          db.markets[i].market_id = db.markets[j].market_id => i = j
    /\ MarketsStored =>
          \A k \in DOMAIN cur.markets_data :
             LET id == Get(cur.markets_data[k], "id")
                 existing == QueryMarket(cur.before.markets, id)
             IN IF existing # 0
                THEN /\ existing \in DOMAIN db.markets
                     /\ db.markets[existing].market_id = id
                ELSE \E i \in DOMAIN db.markets :
                        /\ i > Len(cur.before.markets)
                        /\ db.markets[i].market_id = id

\* the stored value of a merged field: the payload's value if the payload has the
\* key, the previous value otherwise
Merged(data, key, value, previous) == IF key \in DOMAIN data THEN value ELSE previous

\* C16: when collect_markets updates an existing Market from a payload (the only
\* one of its page for that market), question, volume, the serialized outcomes and
\* outcome prices and the winning outcome are overwritten if the payload supplies
\* them and keep their stored value otherwise.
C16_PartialPayloadMerge ==
    (pc = "markets_returned" /\ cur.markets_status = 200) =>
        \A k \in DOMAIN cur.markets_data :
           LET data == cur.markets_data[k]
               existing == QueryMarket(cur.before.markets, Get(data, "id"))
               old == cur.before.markets[existing]
               new == db.markets[existing]
           IN (/\ existing # 0
               /\ \A n \in DOMAIN cur.markets_data :
                     Get(cur.markets_data[n], "id") = Get(data, "id") => n = k) =>
                /\ new.question = Merged(data, "question", GetOr(data, "question", ""), old.question)
                /\ new.volume = Merged(data, "volume", GetOr(data, "volume", 0), old.volume)
                /\ new.winning_outcome =
                     Merged(data, "winning_outcome", Get(data, "winning_outcome"), old.winning_outcome)
                /\ new.outcomes =
                     Merged(data, "outcomes", Json(GetOr(data, "outcomes", <<>>)), old.outcomes)
                /\ new.outcome_prices =
                     Merged(data, "outcome_prices", Json(GetOr(data, "outcome_prices", <<>>)),
                            old.outcome_prices)

\* the market backfill of this collect_trader call has run
BackfillRan == pc = "returned" /\ cur.market_ids # {}

\* the distinct market identifiers on the trader's committed Position rows
PositionMarkets ==
    {Val(db.positions[i].market_id) :
        i \in {j \in DOMAIN db.positions : /\ db.positions[j].trader_id = cur.trader
                                           /\ Truthy(db.positions[j].market_id)}}

\* the Market table held a row for the identifier when the backfill started
HadMarket(m) ==
    \E i \in DOMAIN cur.before.markets : cur.before.markets[i].condition_id = Some(m)

C18_BackfillFetchDiscipline ==
    BackfillRan =>
        /\ \A a, b \in DOMAIN cur.fetched_markets :
              cur.fetched_markets[a] = cur.fetched_markets[b] => a = b
        /\ Range(cur.fetched_markets) = {m \in PositionMarkets : ~HadMarket(m)}

C18_Witness ==
    /\ BackfillRan
    /\ \E m \in PositionMarkets : HadMarket(m)
    /\ \E m \in PositionMarkets : ~HadMarket(m)
    /\ Len(cur.fetched_markets) = 1
    /\ \E i, j \in DOMAIN db.positions :
          /\ i # j
          /\ db.positions[i].trader_id = cur.trader
          /\ db.positions[i].market_id = db.positions[j].market_id
          /\ db.positions[j].trader_id = cur.trader

\* the payload carries neither hash field
Hashless(data) == ~Truthy(Or(Get(data, "transactionHash"), Get(data, "txHash")))

\* the number of the trader's Activity rows stored from the payload `data`
RowsOf(tables, trader_id, data) ==
    Cardinality({i \in DOMAIN tables.activities :
        /\ tables.activities[i].trader_id = trader_id
        /\ tables.activities[i].activity_metadata = Some(data)})

\* C19: every collect_trader run that commits inserts one new Activity row for each
\* payload without a hash that its activity feed returned (so n runs over a snapshot
\* containing such a payload leave n rows for it).
C19_HashlessAlwaysNew ==
    (pc \in {"backfill", "returned"} /\ cur.activity_status = 200) =>
        \A k \in DOMAIN api.activity.body :
           Hashless(api.activity.body[k]) =>
              RowsOf(db, cur.trader, api.activity.body[k]) =
                 RowsOf(cur.before, cur.trader, api.activity.body[k])
                 + Cardinality({n \in DOMAIN api.activity.body :
                                   api.activity.body[n] = api.activity.body[k]})

C19_Witness ==
    /\ Replayed
    /\ pc = "returned"
    /\ calls = 2
    /\ \E k \in DOMAIN api.activity.body :
          /\ Hashless(api.activity.body[k])
          /\ \A n \in DOMAIN api.activity.body : api.activity.body[n] = api.activity.body[k] => n = k
          /\ RowsOf(db, cur.trader, api.activity.body[k]) = 2

\* C20: no step changes or deletes a committed Activity row.
C20_ActivitiesImmutable ==
    [][\A i \in DOMAIN db.activities :
          /\ i \in DOMAIN db'.activities
          /\ db'.activities[i] = db.activities[i]]_vars

C20_Witness ==
    /\ pc = "returned"
    /\ cur.activity_status = 200
    /\ \E k \in DOMAIN api.activity.body : \E i \in DOMAIN cur.before.activities :
          /\ cur.before.activities[i].trader_id = cur.trader
          /\ cur.before.activities[i].transaction_hash # None
          /\ cur.before.activities[i].transaction_hash =
                Or(Get(api.activity.body[k], "transactionHash"), Get(api.activity.body[k], "txHash"))
          /\ cur.before.activities[i].activity_metadata # Some(api.activity.body[k])
          /\ db.activities[i] = cur.before.activities[i]

\* a collect_trader call is running or has just ended
InCall == cur.address # ""

\* C21: there is at most one Trader row per address, a run for an address that has
\* a committed Trader row works on that row, and no run removes a committed Trader
\* row or changes its address.
C21_TraderIdentity ==
    /\ \A i, j \in DOMAIN db.traders : db.traders[i].address = db.traders[j].address => i = j
    /\ \A i, j \in DOMAIN work.traders : work.traders[i].address = work.traders[j].address => i = j
    /\ InCall =>
        /\ \A i \in DOMAIN cur.before.traders :
              /\ i \in DOMAIN db.traders
              /\ db.traders[i].address = cur.before.traders[i].address
        /\ \A i \in DOMAIN cur.before.traders :
              (cur.before.traders[i].address = cur.address /\ cur.trader # 0) => cur.trader = i

C21_Witness ==
    /\ pc = "returned"
    /\ calls = 2
    /\ Len(db.traders) = 1
    /\ cur.trader = 1
    /\ Len(cur.before.traders) = 1
    /\ db.traders[1].last_synced_at = 2

\* C22: every Position and Activity row, committed or held by the session, refers
\* to a Trader row that exists: committed rows to a committed trader, the rows of
\* the open transaction to a trader that was flushed before they were added.
C22_ForeignKeys ==
    /\ \A i \in DOMAIN db.positions : db.positions[i].trader_id \in DOMAIN db.traders
    /\ \A i \in DOMAIN db.activities : db.activities[i].trader_id \in DOMAIN db.traders
    /\ \A i \in DOMAIN work.positions : work.positions[i].trader_id \in DOMAIN work.traders
    /\ \A i \in DOMAIN work.activities : work.activities[i].trader_id \in DOMAIN work.traders
    /\ \A i \in DOMAIN pending.positions : pending.positions[i].trader_id \in DOMAIN work.traders
    /\ \A i \in DOMAIN pending.activities : pending.activities[i].trader_id \in DOMAIN work.traders

C22_Witness ==
    /\ pc = "commit"
    /\ cur.trader > Len(db.traders)
    /\ pending.positions # <<>>
    /\ pending.activities # <<>>

RECURSIVE SumAbsCash(_, _)
\* the sum of |cashAmount| over the trades with index in S
SumAbsCash(trades, S) ==
    IF S = {} THEN 0
    ELSE LET i == CHOOSE x \in S : TRUE
             amount == IF "cashAmount" \in DOMAIN trades[i] THEN trades[i].cashAmount ELSE 0
         IN (IF amount < 0 THEN 0 - amount ELSE amount) + SumAbsCash(trades, S \ {i})

\* C23: after the trades pass retrieved a non-empty history, total_volume is the
\* sum of the absolute cash amounts of the retrieved trades, total_trades their
\* number and markets_traded the number of distinct markets they name, whatever
\* the stored values were.
C23_TradeAggregates ==
    StatsRan =>
        LET trader == work.traders[cur.trader]
            named == {k \in DOMAIN cur.all_trades : "conditionId" \in DOMAIN cur.all_trades[k]}
        IN /\ trader.total_volume = SumAbsCash(cur.all_trades, DOMAIN cur.all_trades)
           /\ trader.total_trades = Len(cur.all_trades)
           /\ trader.markets_traded = Cardinality({cur.all_trades[k].conditionId : k \in named})

C23_Witness ==
    /\ StatsRan
    /\ Len(cur.all_trades) = MaxTrades
    /\ cur.trader <= Len(cur.before.traders)
    /\ cur.before.traders[cur.trader].total_trades = 1
    /\ work.traders[cur.trader].total_volume = 11
    /\ work.traders[cur.trader].markets_traded = 2

\* the statistics columns the trades pass assigns
TradeColumns == {"total_volume", "total_trades", "markets_traded", "first_trade_date",
                 "last_trade_date"}

\* the trader row as the trades pass of this call found it
TraderBeforePass ==
    IF cur.trader <= Len(cur.before.traders) THEN cur.before.traders[cur.trader]
    ELSE NewTrader(cur.address, 0)

\* C24: a trades request that fails with 404, the first or a later one, ends the
\* trades pass without raising and leaves total_volume, total_trades,
\* markets_traded and the first and last trade dates as they were.
C24_TradesNotFound ==
    cur.trades_status = 404 =>
        /\ pc \in {"activities", "commit", "backfill", "returned"}
        /\ \A f \in TradeColumns :
              /\ work.traders[cur.trader][f] = TraderBeforePass[f]
              /\ pc \in {"backfill", "returned"} => db.traders[cur.trader][f] = TraderBeforePass[f]

C24_Witness ==
    /\ cur.trades_status = 404
    /\ cur.fetches = 3
    /\ Len(cur.all_trades) = 2 * limit
    /\ pc = "returned"
    /\ cur.trader <= Len(cur.before.traders)
    /\ cur.before.traders[cur.trader].total_trades = 1

\* the session holds a Position row for the payload entry, stored or added
HasPositionFor(trader_id, entry) ==
    \/ QueryPosition(work.positions, trader_id, Get(entry, "condition_id"), Get(entry, "outcome")) # 0
    \/ QueryPosition(pending.positions, trader_id, Get(entry, "condition_id"), Get(entry, "outcome")) # 0

\* C25: in a collect_trader run the trader is loaded or created before the position
\* fetch, the position fetch and its writes come before the first trades fetch,
\* the trades pass before the activity fetch, the commit after the activity pass,
\* and no market-detail fetch before the commit.
C25_StepOrdering ==
    InCall =>
        /\ pc = "positions" =>
              (cur.trader \in DOMAIN work.traders /\ cur.positions_status = 0)
        /\ cur.positions_status = 0 => cur.fetches = 0
        /\ (pc = "trades" /\ cur.positions_status = 200) =>
              \A k \in DOMAIN api.positions.body : HasPositionFor(cur.trader, api.positions.body[k])
        /\ cur.fetches = 0 => cur.activity_status = 0
        /\ pc \in {"commit", "backfill", "returned"} => cur.activity_status # 0
        /\ cur.fetched_markets # <<>> =>
              /\ pc = "returned"
              /\ db.traders[cur.trader].last_synced_at = calls

C25_Witness ==
    /\ pc = "returned"
    /\ cur.trader > Len(cur.before.traders)
    /\ cur.positions_status = 200
    /\ cur.fetches >= 2
    /\ cur.activity_status = 200
    /\ cur.fetched_markets # <<>>

\* C26: a position payload without a market identifier is skipped: no Position row
\* without a market identifier is ever stored.
C26_NoMarketSkipped ==
    /\ \A i \in DOMAIN db.positions : Truthy(db.positions[i].market_id)
    /\ \A i \in DOMAIN pending.positions : Truthy(pending.positions[i].market_id)

\* C27: after a successful position fetch, the identifier set _collect_positions
\* returns is the set of the non-empty market identifiers of the fetched payloads.
C27_ReturnedIdentifiers ==
    (InCall /\ cur.positions_status = 200) =>
        cur.market_ids =
            {api.positions.body[k].condition_id :
                k \in {n \in DOMAIN api.positions.body :
                          /\ "condition_id" \in DOMAIN api.positions.body[n]
                          /\ api.positions.body[n].condition_id # ""}}

C27_Witness ==
    /\ pc = "trades"
    /\ cur.market_ids = {"M2"}
    /\ Len(api.positions.body) = 2
    /\ \E i \in DOMAIN work.positions :
          /\ work.positions[i].trader_id = cur.trader
          /\ work.positions[i].market_id = Some("M1")
    /\ \E i \in DOMAIN work.positions :
          /\ work.positions[i].trader_id = cur.trader
          /\ work.positions[i].market_id = Some("M2")

\* C28: the market backfill of a collect_trader call changes no committed Trader,
\* Position or Activity row, and the call returns whatever fails inside it (a
\* request, a store, or the backfill's own commit).
C28_BackfillSeparate ==
    [][pc = "backfill" =>
          /\ pc' = "returned"
          /\ db'.traders = db.traders
          /\ db'.positions = db.positions
          /\ db'.activities = db.activities]_vars

C28_Witness ==
    /\ pc = "returned"
    /\ pending.needs_rollback
    /\ Len(cur.fetched_markets) = 2
    /\ db.markets = cur.before.markets
    /\ Len(PositionsOf(db.positions, cur.trader)) = 2
    /\ db.traders[cur.trader].last_synced_at = calls

\* C29: whenever collect_trader has committed, every committed position of the
\* trader whose market is missing from the Market table has had its market-detail
\* fetch in that call, whatever the position fetch returned.
C29_BackfillTrigger ==
    pc = "returned" =>
        \A m \in PositionMarkets : ~HadMarket(m) => m \in Range(cur.fetched_markets)

\* two committed Position rows for one (trader, market identifier, outcome)
DuplicatePosition ==
    \E i, j \in DOMAIN db.positions :
        /\ i # j
        /\ db.positions[i].trader_id = db.positions[j].trader_id
        /\ db.positions[i].market_id = db.positions[j].market_id
        /\ db.positions[i].outcome = db.positions[j].outcome

\* both runs committed, and each took its snapshot before the other committed
OverlappedRuns ==
    /\ \A r \in Runs : pc[r] = "returned"
    /\ \A r \in Runs : cur[r].seen = 0

\* C30: two collect_trader runs for one address on transactions of their own leave
\* two Position rows for one (trader, market identifier, outcome) exactly when they
\* overlap (each reads before the other commits) and both fetch a position that
\* was not stored; when both try to insert the Trader row, the unique address lets
\* one of them through and the other run raises.
C30_RaceOnOverlap ==
    /\ DuplicatePosition => OverlappedRuns
    /\ (/\ OverlappedRuns
        /\ \A r \in Runs : cur[r].positions_status = 200
        /\ \E k \in DOMAIN api.positions.body :
              QueryPosition(cur[1].before.positions, cur[1].trader,
                            Get(api.positions.body[k], "condition_id"),
                            Get(api.positions.body[k], "outcome")) = 0) => DuplicatePosition
    /\ \A i, j \in DOMAIN db.traders : db.traders[i].address = db.traders[j].address => i = j
    /\ (\A r \in Runs : cur[r].created) => \E r \in Runs : pc[r] = "raised"

C30_Witness ==
    /\ OverlappedRuns
    /\ DuplicatePosition
    /\ Len(db.traders) = 1
    /\ \A r \in Runs : ~cur[r].created

\* the position, trades, activity and commit steps of a collect_trader call
InSteps == task.active /\ pc \in {"idle", "positions", "trades", "stats", "activities", "commit"}

C32_PaginationCompleteness ==
    /\ pc = "trades" => cur.fetches <= api.trades.n \div limit
    /\ pc = "stats" =>
        /\ cur.fetches = (api.trades.n \div limit) + 1
        /\ Len(cur.all_trades) = api.trades.n
        /\ \A i \in 1..api.trades.n :
              Cardinality({k \in DOMAIN cur.all_trades : cur.all_trades[k] = TradeAt(i)}) = 1
        /\ Len(cur.all_trades) - (cur.fetches - 1) * limit \in 0..(limit - 1)
        /\ (api.trades.n > 0 /\ api.trades.n % limit = 0)
              => Len(cur.all_trades) = (cur.fetches - 1) * limit

\* four trades at two a page: two full pages and an empty third one
C32_Witness ==
    /\ pc = "stats"
    /\ api.trades.n = 2 * limit
    /\ cur.fetches = 3
    /\ Len(cur.all_trades) = 2 * limit

\* the trades pass has ended on an empty first page
NoTradesAtAll ==
    /\ pc \in {"activities", "commit"}
    /\ cur.trades_status = 200
    /\ cur.fetches = 1
    /\ cur.all_trades = <<>>

\* C33: when the first trades page is empty the pass returns before the
\* calculators: total_volume, total_trades, markets_traded, the first and last
\* trade dates, win_rate and avg_position_size keep the values they had before the
\* pass, whatever the position pass of the same call changed.
C33_EmptyHistoryFreezesStats ==
    NoTradesAtAll =>
        \A f \in TradeColumns \cup {"win_rate", "avg_position_size"} :
            work.traders[cur.trader][f] = TraderBeforePass[f]

\* a trader with statistics from an earlier call, whose positions this call changed
C33_Witness ==
    /\ NoTradesAtAll
    /\ cur.trader <= Len(cur.before.traders)
    /\ cur.before.traders[cur.trader].total_trades > 0
    /\ work.positions # cur.before.positions
    /\ _calculate_win_rate(work.positions, cur.trader) # work.traders[cur.trader].win_rate

\* the key of a Position row
KeyOf(row) == <<row.trader_id, row.market_id, row.outcome>>

\* the payload of the call lists the key of the row
Listed(row) ==
    \E j \in DOMAIN api.positions.body :
        /\ row.market_id = Get(api.positions.body[j], "condition_id")
        /\ row.outcome = Get(api.positions.body[j], "outcome")

\* C34: no step deletes a Position row: a committed row stays committed under its
\* key and stays visible to the transaction, whatever later position snapshots
\* list, and the calculators of the trades pass count it: the average position
\* size is taken over a set of rows that contains every committed row of the trader.
C34_PositionsNeverDeleted ==
    [][/\ \A i \in DOMAIN db.positions :
            /\ i \in DOMAIN db'.positions
            /\ KeyOf(db'.positions[i]) = KeyOf(db.positions[i])
            /\ i \in DOMAIN work'.positions
            /\ KeyOf(work'.positions[i]) = KeyOf(db.positions[i])
       /\ (pc = "stats" /\ cur.all_trades # <<>>) =>
            LET rows == {i \in DOMAIN work.positions : work.positions[i].trader_id = cur.trader}
                avg == work'.traders[cur.trader].avg_position_size
            IN /\ {i \in DOMAIN db.positions : db.positions[i].trader_id = cur.trader} \subseteq rows
               /\ rows # {} =>
                    /\ avg # None
                    /\ Val(avg)[1] * Cardinality(rows) =
                          Val(avg)[2] * SumInitialValue(work.positions, rows)]_vars

\* after a call whose payload no longer lists a committed position: the row is
\* still there, and the statistics of the call counted it
C34_Witness ==
    /\ pc = "returned"
    /\ cur.positions_status = 200
    /\ cur.all_trades # <<>>
    /\ \E i \in DOMAIN cur.before.positions :
          /\ cur.before.positions[i].trader_id = cur.trader
          /\ ~Listed(cur.before.positions[i])
          /\ db.positions[i] = cur.before.positions[i]
    /\ db.traders[cur.trader].avg_position_size # None
    /\ Len(db.positions) = 2

\* the columns of a Position row an update leaves alone
InsertOnlyColumns == {"trader_id", "market_id", "outcome", "initial_value", "invested_amount"}

\* a payload entry for the key of the stored row i that carries another initial
\* value and another size than the row had before the call
Restated(i) ==
    \E j \in DOMAIN api.positions.body :
        LET data == api.positions.body[j]
        IN /\ cur.before.positions[i].market_id = Get(data, "condition_id")
           /\ cur.before.positions[i].outcome = Get(data, "outcome")
           /\ "initialValue" \in DOMAIN data
           /\ data.initialValue # cur.before.positions[i].initial_value
           /\ "size" \in DOMAIN data
           /\ data.size # cur.before.positions[i].size

\* C35: a stored Position keeps its trader, market identifier, outcome,
\* initial_value and invested_amount through every step, in the transaction and in
\* the committed table, whatever later payloads carry; the average position size of
\* a trades pass is therefore the average of the first-seen initial values.
C35_UpdateKeepsInitialValue ==
    [][\A i \in DOMAIN db.positions : \A f \in InsertOnlyColumns :
          /\ db'.positions[i][f] = db.positions[i][f]
          /\ work'.positions[i][f] = db.positions[i][f]]_vars

\* a call has updated a row from a payload that carries another initial value
C35_Witness ==
    /\ pc = "returned"
    /\ cur.positions_status = 200
    /\ \E i \in DOMAIN cur.before.positions :
          /\ cur.before.positions[i].trader_id = cur.trader
          /\ Restated(i)
          /\ db.positions[i].size # cur.before.positions[i].size
          /\ db.positions[i].initial_value = cur.before.positions[i].initial_value

\* C36: every Position row, committed, seen by the transaction or added to the
\* session, has shares = size and invested_amount = initial_value, after its
\* insertion and after every update.
C36_AliasFieldsInSync ==
    \A rows \in {db.positions, work.positions, pending.positions} :
        \A i \in DOMAIN rows :
            /\ rows[i].shares = rows[i].size
            /\ rows[i].invested_amount = rows[i].initial_value

\* the transaction holds a row whose size an update has changed, and the session a
\* new row
C36_Witness ==
    /\ pc = "trades"
    /\ pending.positions # <<>>
    /\ \E i \in DOMAIN cur.before.positions :
          /\ work.positions[i].size # cur.before.positions[i].size
          /\ work.positions[i].shares = work.positions[i].size

\* C37: in a batch on one session, the rollback of a call that raises leaves the
\* committed rows (those of the addresses before it among them) as they were and
\* the session empty, and the call for the next address is served by the session:
\* it gets its trader and goes on to the position pass.
C37_FailedAddressIsolated ==
    [][/\ (pc' = "raised" /\ pc # "raised") =>
            /\ db' = db
            /\ work' = db
            /\ pending' = NewSession
       /\ (/\ pc = "idle" /\ pc' # "idle"
           /\ task.outcomes # <<>>
           /\ task.outcomes[Len(task.outcomes)] = "raised") =>
            /\ pc' = "positions"
            /\ cur'.trader \in DOMAIN work'.traders
            /\ db' = db]_vars

\* the second address of a batch has raised after its position pass had written to
\* the session, and the rows committed for the first address are in the store
C37_Witness ==
    /\ pc = "raised"
    /\ task.outcomes = <<"returned">>
    /\ task.attempted = <<"0x404", "0xa1">>
    /\ cur.positions_status = 200
    /\ cur.trades_status = 500
    /\ db.positions # <<>>
    /\ db.activities # <<>>
    /\ Len(db.traders) = 1
    /\ pending = NewSession

\* the market identifiers of the trader's stored positions
MarketsOfTrader ==
    {Val(work.positions[i].market_id) :
        i \in {j \in DOMAIN work.positions : /\ work.positions[j].trader_id = cur.trader
                                             /\ Truthy(work.positions[j].market_id)}}

\* an earlier run for the trader has stored these positions, and its backfill the
\* market of every position whose market-detail request is answered
BackfilledBefore ==
    /\ cur.trader \in DOMAIN cur.before.traders
    /\ PositionsOf(cur.before.positions, cur.trader) = PositionsOf(work.positions, cur.trader)
    /\ MarketsOfTrader # {}
    /\ \A m \in MarketsOfTrader :
          ~Raises(get_market(m)) =>
              \E i \in DOMAIN cur.before.markets :
                  cur.before.markets[i].market_id = Get(get_market(m).body, "id")

\* C38: once a backfill for the trader has gone through, a repeated backfill
\* against the same API adds no Market row and fails no flush: a market whose
\* stored condition identifier differs from the position's identifier is fetched
\* again and updated in place under its market id.
C38_BackfillIdempotent ==
    [][(pc = "backfill" /\ BackfilledBefore) =>
          /\ Len(db'.markets) = Len(db.markets)
          /\ \A i \in DOMAIN db.markets : db'.markets[i].market_id = db.markets[i].market_id
          /\ ~pending'.needs_rollback]_vars

\* the second run has fetched again the market it had stored under another
\* condition identifier, and has updated the row
C38_Witness ==
    /\ pc = "returned"
    /\ BackfilledBefore
    /\ "M2" \in Range(cur.fetched_markets)
    /\ QueryMarketByCondition(db.markets, Some("M2")) = 0
    /\ Len(db.markets) = Len(cur.before.markets)
    /\ db.markets # cur.before.markets

\* the entries of the page whose conversion does not raise
Storable == {k \in DOMAIN cur.markets_data : ~FloatRaises(cur.markets_data[k], "liquidity")}

\* the row of the market with this identifier, None if there is none
MarketRow(markets, id) ==
    IF QueryMarket(markets, id) = 0 THEN None ELSE Some(markets[QueryMarket(markets, id)])

\* C39: after collect_markets: a failed fetch raised and changed no Market row; an
\* empty page returned 0 and wrote nothing; any other page returned the number of
\* its payloads stored without error, with a committed row for each of them, and a
\* market whose payloads all failed is as it was before the call.
C39_CollectMarketsOutcome ==
    pc \in {"markets_returned", "markets_raised"} =>
        IF cur.markets_status # 200
        THEN pc = "markets_raised" /\ db = cur.before
        ELSE IF cur.markets_data = <<>>
        THEN pc = "markets_returned" /\ cur.collected = Some(0) /\ db = cur.before
        ELSE /\ pc = "markets_returned"
             /\ cur.collected = Some(Cardinality(Storable))
             /\ \A k \in Storable :
                   QueryMarket(db.markets, Get(cur.markets_data[k], "id")) # 0
             /\ \A k \in DOMAIN cur.markets_data \ Storable :
                   LET id == Get(cur.markets_data[k], "id")
                   IN (\A n \in Storable : Get(cur.markets_data[n], "id") # id) =>
                        MarketRow(db.markets, id) = MarketRow(cur.before.markets, id)

====
